---- MODULE Spec2Model ----
(***************************************************************************)
(* gc_fst: GameCube ISO builder (write_iso) and extractor (read_iso).      *)
(*                                                                         *)
(* Byte counts are kept as two 16-bit halves (a "wide" number) because a   *)
(* u32 does not fit TLC's 32-bit integers: [hi, lo] stands for            *)
(* hi * 2^16 + lo.  A u32 has hi < 2^16; a usize (Vec length, file size)   *)
(* has any hi.  Offsets inside the boot region and the FST stay small and  *)
(* are plain naturals.                                                     *)
(*                                                                         *)
(* A byte buffer (Vec<u8>, &[u8], a host file's contents) is kept as a     *)
(* rope: runs of bytes that come from a named source, zero everywhere      *)
(* else; the FST region is kept byte by byte.                              *)
(***************************************************************************)
EXTENDS Integers, Sequences, FiniteSets, TLC

VARIABLES
    build,          \* "debug" | "release": overflow checks on or off
    host,           \* the host filesystem below ./root : set of nodes
    boot,           \* the three files of root/&&systemdata (NoFile if absent)
    disc,           \* the ISO file on disk (NoDisc if none)
    pc,             \* position of the running command
    iso,            \* write_iso: the output Vec<u8>; read_iso: the input slice
    lay,            \* write_iso locals (offsets)
    entry_offset,   \* write_iso: entry cursor
    string_offset,  \* write_iso: string cursor
    stack,          \* write_dir call frames
    rd,             \* read_iso locals
    result,         \* "none" | "Ok" | error name | "panic"
    ops,            \* the commands run so far, in order
    orig,           \* what the first command was given (for comparisons)
    args,           \* set-header and fs: the arguments of the command
    target,         \* set-header: the bytes of the file at <path>
    ed              \* operate_on_iso locals

vars == <<build, host, boot, disc, pc, iso, lay, entry_offset, string_offset,
          stack, rd, result, ops, orig, args, target, ed>>

\* the state of the commands set-header and fs
cli == <<args, target, ed>>

----------------------------------------------------------------------------
(* Wide numbers *)

HALF == 2^16

W(h, l) == [hi |-> h, lo |-> l]

WZero == W(0, 0)

\* a natural below 2^31 as a wide number
Wide(n) == W(n \div HALF, n % HALF)

\* a wide number below 2^31 as a natural
Narrow(w) == w.hi * HALF + w.lo

IsSmall(w) == w.hi < 2^15

WAdd(a, b) ==
    LET s == a.lo + b.lo
    IN  W(a.hi + b.hi + (s \div HALF), s % HALF)

WLt(a, b) == a.hi < b.hi \/ (a.hi = b.hi /\ a.lo < b.lo)

WLe(a, b) == a.hi < b.hi \/ (a.hi = b.hi /\ a.lo <= b.lo)

\* a - b for b <= a
WSub(a, b) ==
    IF a.lo >= b.lo
    THEN W(a.hi - b.hi, a.lo - b.lo)
    ELSE W(a.hi - b.hi - 1, a.lo + HALF - b.lo)

WMin(a, b) == IF WLe(a, b) THEN a ELSE b

WMax(a, b) == IF WLe(a, b) THEN b ELSE a

\* `x as u32`
AsU32(w) == W(w.hi % HALF, w.lo)

\* u32::to_be_bytes
to_be_bytes(w) == << w.hi \div 256, w.hi % 256, w.lo \div 256, w.lo % 256 >>

\* u32::from_be_bytes
from_be_bytes(b) == W(b[1] * 256 + b[2], b[3] * 256 + b[4])

ROM_SIZE == W(22277, 32768)     \* 0x57058000

\* a faulty align: n + mask with the low bits left in place
align_unmasked(n, bits) ==
    LET s == n.lo + 2^bits - 1
    IN  W((n.hi + (s \div HALF)) % HALF, s % HALF)

\* fn align(n, bits): (n + mask) & !mask on u32, for bits <= 16.
\* The sum wraps in a release build.
align(n, bits) ==
    LET mask == 2^bits - 1
        s    == n.lo + mask
        lo1  == s % HALF
        hi1  == (n.hi + (s \div HALF)) % HALF
    IN  W(hi1, lo1 - (lo1 % (2^bits)))

\* `n + mask` overflows u32: a panic in a debug build
AlignOverflows(n, bits) ==
    n.hi + ((n.lo + 2^bits - 1) \div HALF) >= HALF

----------------------------------------------------------------------------
(* Byte strings *)

\* where a run of bytes comes from: a host file ("file", its path), one of
\* the boot files with the words the reader looks at ("hdr": the four words
\* at 0x420; "ldr": the two size words at 0x14; "dol": the span of its
\* segment table), the bytes of an FST ("fst"), or zero fill
Src(t, id, w) == [t |-> t, id |-> id, w |-> w, bytes |-> <<>>]

ZeroSrc == Src("zero", <<>>, <<>>)

FstSrc(bs) == [t |-> "fst", id |-> <<>>, w |-> <<>>, bytes |-> bs]

Piece(src, from, n) == [src |-> src, from |-> from, n |-> n]

\* the bytes of a whole source of n bytes (none when n = 0)
Whole(src, n) == IF n = WZero THEN <<>> ELSE << Piece(src, WZero, n) >>

RECURSIVE CLen(_)
\* the length of a byte string
CLen(c) == IF c = <<>> THEN WZero ELSE WAdd(c[1].n, CLen(Tail(c)))

\* Vec<u8>: length, the runs that are not zero (ascending, disjoint), and
\* the FST region [fstAt, fstAt + Len(fst)) byte by byte.  `overrun` records
\* a write that landed outside the FST region, `panic` an index out of range.
EmptyVec == [len |-> WZero, segs |-> <<>>, fstAt |-> 0, fst |-> <<>>,
             overrun |-> FALSE, panic |-> FALSE]

Seg(off, p) == [off |-> off, src |-> p.src, from |-> p.from, n |-> p.n]

RECURSIVE VecExtend(_, _)
\* Vec::extend_from_slice / io::copy into the Vec: append a byte string
VecExtend(v, c) ==
    IF c = <<>> THEN v
    ELSE LET p  == c[1]
             v1 == [v EXCEPT !.len = WAdd(v.len, p.n),
                             !.segs = IF p.src = ZeroSrc THEN @
                                      ELSE Append(@, Seg(v.len, p))]
         IN  VecExtend(v1, Tail(c))

RECURSIVE CutSegs(_, _)
CutSegs(segs, n) ==
    IF segs = <<>> THEN <<>>
    ELSE LET s == segs[1]
         IN  IF WLe(n, s.off) THEN <<>>
             ELSE << [s EXCEPT !.n = WMin(s.n, WSub(n, s.off))] >>
                  \o CutSegs(Tail(segs), n)

\* Vec::resize(n, 0): zero-extend, or truncate when n < len
VecResize(v, n) ==
    IF WLe(v.len, n) THEN [v EXCEPT !.len = n]
    ELSE [v EXCEPT !.len = n,
                   !.segs = CutSegs(v.segs, n),
                   !.fst = [i \in 1..Len(v.fst) |->
                               IF WLt(Wide(v.fstAt + i - 1), n)
                               THEN v.fst[i] ELSE 0]]

\* iso[o..][..k] is inside the buffer (otherwise the slice panics)
InRange(v, o, k) == WLe(WAdd(o, k), v.len)

\* iso[o..][..Len(bs)].copy_from_slice(bs): panics outside the buffer
PutBytes(v, o, bs) ==
    IF ~InRange(v, Wide(o), Wide(Len(bs))) THEN [v EXCEPT !.panic = TRUE]
    ELSE IF o >= v.fstAt /\ o + Len(bs) <= v.fstAt + Len(v.fst)
    THEN [v EXCEPT !.fst = [i \in 1..Len(v.fst) |->
                               LET k == v.fstAt + i - 1 - o
                               IN  IF k >= 0 /\ k < Len(bs) THEN bs[k + 1]
                                   ELSE v.fst[i]]]
    ELSE [v EXCEPT !.overrun = TRUE]

\* the runs of the buffer with the FST region as one of them
AllSegs(v) ==
    IF v.fst = <<>> THEN v.segs
    ELSE LET f == [off |-> Wide(v.fstAt), src |-> FstSrc(v.fst),
                   from |-> WZero, n |-> Wide(Len(v.fst))]
             before == SelectSeq(v.segs, LAMBDA s : WLt(s.off, f.off))
             after  == SelectSeq(v.segs, LAMBDA s : ~WLt(s.off, f.off))
         IN  before \o << f >> \o after

RECURSIVE SliceFrom(_, _, _)
\* the bytes [pos, end) of a buffer with runs `segs`
SliceFrom(segs, pos, end) ==
    IF WLe(end, pos) THEN <<>>
    ELSE IF segs = <<>> \/ WLe(end, segs[1].off)
    THEN << Piece(ZeroSrc, WZero, WSub(end, pos)) >>
    ELSE LET s    == segs[1]
             sEnd == WAdd(s.off, s.n)
         IN  IF WLe(sEnd, pos) THEN SliceFrom(Tail(segs), pos, end)
             ELSE IF WLt(pos, s.off)
             THEN << Piece(ZeroSrc, WZero, WSub(s.off, pos)) >>
                  \o SliceFrom(segs, s.off, end)
             ELSE LET stop == WMin(sEnd, end)
                  IN  << Piece(s.src, WAdd(s.from, WSub(pos, s.off)),
                               WSub(stop, pos)) >>
                      \o SliceFrom(Tail(segs), stop, end)

\* &iso[o..][..n] as a byte string (for a range inside the buffer)
VecSlice(v, o, n) == SliceFrom(AllSegs(v), o, WAdd(o, n))

----------------------------------------------------------------------------
(* The host filesystem *)

NameA == << 97 >>                   \* "a"
NameB == << 66 >>                   \* "B"
SYSTEMDATA == << 38, 38, 115, 121, 115, 116, 101, 109, 100, 97, 116, 97 >>
                                    \* "&&systemdata"

Names == { NameA, NameB, SYSTEMDATA }

\* a node below the root: its path (names from the root), what it is, and
\* for a file its bytes
Node(path, kind, data) == [path |-> path, kind |-> kind, data |-> data]

RootNode == Node(<<>>, "dir", <<>>)

SysNode == Node(<< SYSTEMDATA >>, "dir", <<>>)

Parent(path) == SubSeq(path, 1, Len(path) - 1)

file_name(node) == node.path[Len(node.path)]

IsDir(fs, path) == \E n \in fs : n.path = path /\ n.kind = "dir"

Exists(fs, path) == \E n \in fs : n.path = path

\* the entries of directory `path`
Children(fs, path) ==
    { n \in fs : Len(n.path) = Len(path) + 1 /\ Parent(n.path) = path }

\* std::fs::read_dir: the entries in any order
read_dir(fs, path) ==
    LET kids == Children(fs, path)
        k    == Cardinality(kids)
    IN  { l \in [1..k -> kids] : \A i, j \in 1..k : i # j => l[i] # l[j] }

RECURSIVE count_entries(_, _)
RECURSIVE CountOver(_, _)
\* the loop of count_entries over the entries `kids`: <<entry_count,
\* total_string_length>>
CountOver(fs, kids) ==
    IF kids = {} THEN << 0, 0 >>
    ELSE LET e    == CHOOSE x \in kids : TRUE
             rest == CountOver(fs, kids \ {e})
             name == file_name(e)
         IN  IF e.kind = "file"
             THEN << rest[1] + 1, rest[2] + Len(name) + 1 >>
             ELSE IF e.kind = "dir" /\ name # SYSTEMDATA
             THEN LET sub == count_entries(fs, e.path)
                  IN  << rest[1] + 1 + sub[1],
                         rest[2] + Len(name) + 1 + sub[2] >>
             ELSE rest

\* a faulty count: the directories of `path` are passed over
count_entries_files(fs, path) ==
    CountOver(fs, { n \in Children(fs, path) : n.kind = "file" })

count_entries(fs, path) == CountOver(fs, Children(fs, path))

----------------------------------------------------------------------------
(* write_iso *)

SEGMENT_ALIGNMENT == 8

FILE_CONTENTS_ALIGNMENT == 15

NoLay == [dol_offset |-> 0, fst_offset |-> 0, entry_count |-> 0,
          entry_start |-> 0, string_start |-> 0, string_end |-> 0]

\* `let rounded_size = align(iso.len() as u32, bits); iso.resize(rounded_size, 0)`
AlignVec(v, bits) ==
    LET n == AsU32(v.len)
    IN  IF AlignOverflows(n, bits) /\ build = "debug"
        THEN [v EXCEPT !.panic = TRUE]
        ELSE VecResize(v, align(n, bits))

\* a faulty frame: the next index goes to the slot of the parent index
Frame_parent(path, list, parent, patch) ==
    [path |-> path, list |-> list, i |-> 1, parent |-> parent,
     patch |-> IF patch = 0 THEN 0 ELSE patch - 4]

\* a write_dir call frame: the directory, its listing, the position of the
\* loop in it, parent_dir_idx, and the caller's next_idx_offset (0: none)
Frame(path, list, parent, patch) ==
    [path |-> path, list |-> list, i |-> 1, parent |-> parent, patch |-> patch]

Top == stack[Len(stack)]

Entry == Top.list[Top.i]

Advance(st) == [st EXCEPT ![Len(st)].i = @ + 1]

\* the command ends with `res`
Finish(res) ==
    /\ result' = res
    /\ pc' = "shell"
    /\ stack' = <<>>

\* write_iso, lines 20-75: ISO.hdr, AppLoader.ldr and Start.dol
write_iso_boot ==
    /\ pc = "w_boot"
    /\ UNCHANGED <<cli, build, host, boot, disc, entry_offset, string_offset, rd, ops, orig>>
    /\ IF ~boot.ok
       THEN Finish("ReadFileError") /\ UNCHANGED <<iso, lay>>
       ELSE LET v1 == VecExtend(VecExtend(EmptyVec, boot.hdr), boot.ldr)
                v2 == AlignVec(v1, SEGMENT_ALIGNMENT)
                v3 == VecExtend(v2, boot.dol)
                v4 == AlignVec(v3, SEGMENT_ALIGNMENT)
            IN  /\ iso' = v4
                /\ IF v4.panic
                   THEN Finish("panic") /\ UNCHANGED lay
                   ELSE /\ lay' = [NoLay EXCEPT !.dol_offset = Narrow(v2.len)]
                        /\ pc' = "w_fst"
                        /\ UNCHANGED <<stack, result>>

\* a faulty root entry: the root itself is not counted
RootEntry_less(entry_count) ==
    << 1, 0, 0, 0, 0, 0, 0, 0 >> \o to_be_bytes(Wide(entry_count))

\* write_iso, lines 83-85: the root entry; its count includes the root
RootEntry(entry_count) ==
    << 1, 0, 0, 0, 0, 0, 0, 0 >> \o to_be_bytes(Wide(entry_count + 1))

\* write_iso, lines 77-112: the root entry, the room for the FST, and the
\* call of write_dir on the root
write_iso_fst ==
    /\ pc = "w_fst"
    /\ UNCHANGED <<cli, build, host, boot, disc, rd, ops, orig>>
    /\ IF ~IsDir(host, <<>>)
       THEN Finish("ReadDirError")
            /\ UNCHANGED <<iso, lay, entry_offset, string_offset>>
       ELSE LET fst_offset   == Narrow(AsU32(iso.len))
                counted      == count_entries(host, <<>>)
                entry_count  == counted[1]
                fs_start     == fst_offset + 12
                fs_end       == fs_start + 12 * entry_count
                string_start == fs_end
                string_end   == string_start + counted[2]
                root         == RootEntry(entry_count)
                v1 == [iso EXCEPT
                         !.len = Wide(string_end),
                         !.fstAt = fst_offset,
                         !.fst = root \o [i \in 1..(string_end - fs_start) |-> 0]]
                v2 == AlignVec(v1, FILE_CONTENTS_ALIGNMENT)
            IN  /\ iso' = v2
                /\ lay' = [lay EXCEPT !.fst_offset = fst_offset,
                                      !.entry_count = entry_count,
                                      !.entry_start = fs_start,
                                      !.string_start = string_start,
                                      !.string_end = string_end]
                /\ entry_offset' = fs_start
                /\ string_offset' = string_start
                /\ IF v2.panic
                   THEN Finish("panic")
                   ELSE /\ \E l \in read_dir(host, <<>>) :
                              stack' = << Frame(<<>>, l, 0, 0) >>
                        /\ pc' = "w_walk"
                        /\ UNCHANGED result

\* a faulty PutName: the name is laid one byte late
PutName_late(v, name) ==
    PutBytes(PutBytes(v, string_offset + 1, name),
             string_offset + Len(name) + 1, << 0 >>)

\* the name of an entry and its terminator, laid at the string cursor
PutName(v, name) ==
    PutBytes(PutBytes(v, string_offset, name), string_offset + Len(name), << 0 >>)

\* write_dir, lines 147-172: one regular file
write_dir_file ==
    /\ pc = "w_walk" /\ Top.i <= Len(Top.list)
    /\ Entry.kind = "file"
    /\ UNCHANGED <<cli, build, host, boot, disc, lay, rd, ops, orig>>
    /\ LET v1 == AlignVec(iso, FILE_CONTENTS_ALIGNMENT)
           contents_offset == AsU32(v1.len)
           v2 == PutBytes(v1, entry_offset,
                          to_be_bytes(Wide(string_offset - lay.string_start)))
           v3 == PutBytes(v2, entry_offset + 4, to_be_bytes(contents_offset))
           v4 == PutBytes(v3, entry_offset + 8,
                          to_be_bytes(AsU32(CLen(Entry.data))))
           v5 == PutName(v4, file_name(Entry))
           v6 == VecExtend(v5, Entry.data)
       IN  IF v5.panic
           THEN /\ iso' = v5
                /\ Finish("panic")
                /\ UNCHANGED <<entry_offset, string_offset>>
           ELSE /\ iso' = v6
                /\ entry_offset' = entry_offset + 12
                /\ string_offset' = string_offset + Len(file_name(Entry)) + 1
                /\ stack' = Advance(stack)
                /\ UNCHANGED <<pc, result>>

\* write_dir, lines 173-204: one directory, up to the call for its entries
write_dir_dir ==
    /\ pc = "w_walk" /\ Top.i <= Len(Top.list)
    /\ Entry.kind = "dir" /\ file_name(Entry) # SYSTEMDATA
    /\ UNCHANGED <<cli, build, host, boot, disc, lay, rd, ops, orig>>
    /\ LET string_offset_from_start == string_offset - lay.string_start
           w0 == [to_be_bytes(Wide(string_offset_from_start)) EXCEPT ![1] = 1]
           v1 == PutBytes(iso, entry_offset, w0)
           v2 == PutBytes(v1, entry_offset + 4, to_be_bytes(Wide(Top.parent)))
           next_idx_offset == entry_offset + 8
           v3 == PutName(v2, file_name(Entry))
           entry_index_ == (entry_offset + 12 - lay.entry_start) \div 12
       IN  /\ iso' = v3
           /\ IF v3.panic
              THEN Finish("panic") /\ UNCHANGED <<entry_offset, string_offset>>
              ELSE /\ entry_offset' = entry_offset + 12
                   /\ string_offset' = string_offset + Len(file_name(Entry)) + 1
                   /\ \E l \in read_dir(host, Entry.path) :
                         stack' = Append(stack,
                                     Frame(Entry.path, l, entry_index_,
                                           next_idx_offset))
                   /\ UNCHANGED <<pc, result>>

\* write_dir, lines 176 and 208: `&&systemdata` and what is neither a file
\* nor a directory are passed over
write_dir_skip ==
    /\ pc = "w_walk" /\ Top.i <= Len(Top.list)
    /\ \/ Entry.kind = "dir" /\ file_name(Entry) = SYSTEMDATA
       \/ Entry.kind \notin { "file", "dir" }
    /\ stack' = Advance(stack)
    /\ UNCHANGED <<cli, build, host, boot, disc, pc, iso, lay, entry_offset,
                   string_offset, rd, result, ops, orig>>

\* a faulty next index: the index of the last entry written
next_idx_last(offset, start) == (offset - start) \div 12

\* write_dir, line 206: the index after the last entry written (the root
\* entry is index 0, so the entry at entry_start is index 1)
next_idx(offset, start) == (offset - start) \div 12 + 1

\* write_dir, lines 206-211: the call for a directory returns and its
\* next index is written
write_dir_return ==
    /\ pc = "w_walk" /\ Top.i > Len(Top.list) /\ Len(stack) > 1
    /\ UNCHANGED <<cli, build, host, boot, disc, lay, entry_offset, string_offset,
                   rd, ops, orig>>
    /\ LET v1 == PutBytes(iso, Top.patch,
                          to_be_bytes(Wide(next_idx(entry_offset,
                                                    lay.entry_start))))
       IN  /\ iso' = v1
           /\ IF v1.panic
              THEN Finish("panic")
              ELSE /\ stack' = Advance(SubSeq(stack, 1, Len(stack) - 1))
                   /\ UNCHANGED <<pc, result>>

\* write_iso, lines 114-117, and main's write of the bytes to the ISO path
write_iso_end ==
    /\ pc = "w_walk" /\ Top.i > Len(Top.list) /\ Len(stack) = 1
    /\ UNCHANGED <<cli, build, host, boot, lay, entry_offset, string_offset, rd, ops, orig>>
    /\ IF WLt(ROM_SIZE, iso.len)
       THEN Finish("ISOTooLarge") /\ UNCHANGED <<iso, disc>>
       ELSE /\ iso' = VecResize(iso, ROM_SIZE)
            /\ \/ disc' = iso' /\ Finish("Ok")
               \/ disc' = disc /\ Finish("panic")

----------------------------------------------------------------------------
(* read_iso *)

HDR_SIZE == 9280                \* 0x2440: ISO.hdr is iso[0..0x2440]

OFFSET_TO_DOL_OFFSET == 1056    \* 0x420

OFFSET_TO_FST_OFFSET == 1060    \* 0x424

\* u32 `a + b`: the value in a release build, and whether it overflows
U32Add(a, b) == AsU32(WAdd(a, b))

U32AddOverflows(a, b) == WAdd(a, b).hi >= HALF

\* u32 `a * 0xC` before wrapping
WMul12(a) ==
    LET l == a.lo * 12
    IN  W(a.hi * 12 + (l \div HALF), l % HALF)

\* an overflow panics (debug build) instead of wrapping
Checked(overflows) == overflows /\ build = "debug"

\* the byte at position `pos` of a source.  A boot file holds the words the
\* reader looks at (Start.dol: one segment at 0x100 reaching to its end);
\* every other byte of a file is taken to be 0xFF.
SrcByte(src, pos) ==
    LET p == IF IsSmall(pos) THEN Narrow(pos) ELSE 2^30
    IN  IF src.t = "zero" THEN 0
        ELSE IF src.t = "fst" THEN src.bytes[p + 1]
        ELSE IF src.t = "hdr" /\ p >= 1056 /\ p < 1072
        THEN to_be_bytes(src.w[((p - 1056) \div 4) + 1])[(p % 4) + 1]
        ELSE IF src.t = "ldr" /\ p >= 20 /\ p < 28
        THEN to_be_bytes(src.w[((p - 20) \div 4) + 1])[(p % 4) + 1]
        ELSE IF src.t = "dol" /\ p < 216
        THEN IF p < 4 THEN to_be_bytes(Wide(256))[p + 1]
             ELSE IF p >= 144 /\ p < 148
             THEN to_be_bytes(WSub(src.w[1], Wide(256)))[p - 143]
             ELSE 0
        ELSE 255

RECURSIVE BytesOf(_)
\* a (short) byte string byte by byte
BytesOf(c) ==
    IF c = <<>> THEN <<>>
    ELSE [i \in 1..Narrow(c[1].n) |->
             SrcByte(c[1].src, WAdd(c[1].from, Wide(i - 1)))]
         \o BytesOf(Tail(c))

\* iso[o] for o inside the buffer
ByteAt(v, o) == BytesOf(VecSlice(v, o, Wide(1)))[1]

\* fn read_u32 for an offset whose four bytes are inside the buffer
read_u32(v, o) == from_be_bytes(BytesOf(VecSlice(v, o, Wide(4))))

NoName == [ok |-> FALSE, name |-> <<>>]

RECURSIVE ScanName(_, _, _)
\* CStr::from_bytes_until_nul(..).ok()?.to_str().ok(): the bytes up to the
\* first NUL; None when the buffer ends first or a byte is not ASCII
ScanName(v, pos, acc) ==
    IF WLe(v.len, pos) THEN NoName
    ELSE LET b == ByteAt(v, pos)
         IN  IF b = 0 THEN [ok |-> TRUE, name |-> acc]
             ELSE IF b >= 128 THEN NoName
             ELSE ScanName(v, WAdd(pos, Wide(1)), Append(acc, b))

\* a faulty read_filename: a name that cannot be read counts as empty
read_filename_or_empty(v, o) == [ScanName(v, o, <<>>) EXCEPT !.ok = TRUE]

\* fn read_filename for an offset not past the end of the buffer
read_filename(v, o) == ScanName(v, o, <<>>)

\* std::fs::create_dir_all below ./root ; an empty name adds no component
create_dir_all(fs, path) ==
    LET prefixes == { SubSeq(path, 1, k) : k \in 0..Len(path) }
    IN  IF \E n \in fs : n.path \in prefixes /\ n.kind # "dir"
        THEN [ok |-> FALSE, fs |-> fs]
        ELSE [ok |-> TRUE,
              fs |-> fs \cup { Node(q, "dir", <<>>) : q \in prefixes }]

\* std::fs::write below ./root : fails on a directory; a (dangling) symlink
\* is followed and stays
fs_write(fs, path, data) ==
    IF path = <<>> \/ IsDir(fs, path) \/ ~IsDir(fs, Parent(path))
    THEN [ok |-> FALSE, fs |-> fs]
    ELSE IF \E n \in fs : n.path = path /\ n.kind = "symlink"
    THEN [ok |-> TRUE, fs |-> fs]
    ELSE [ok |-> TRUE,
          fs |-> { n \in fs : n.path # path } \cup { Node(path, "file", data) }]

\* PathBuf::push of a name read from the string pool
PathPush(path, name) == IF name = <<>> THEN path ELSE Append(path, name)

NoRd == [fst_offset |-> WZero, entry_count |-> WZero,
         string_table_offset |-> WZero, offset |-> WZero, entry_index |-> 0,
         dir_end_indices |-> <<>>, path |-> <<>>]

\* a faulty PopEnded: at most one directory is left
PopEnded_once(r) ==
    IF r.dir_end_indices # <<>>
       /\ r.dir_end_indices[Len(r.dir_end_indices)] = Wide(r.entry_index)
    THEN [r EXCEPT !.dir_end_indices = SubSeq(@, 1, Len(@) - 1),
                   !.path = SubSeq(@, 1, Len(@) - 1)]
    ELSE r

RECURSIVE PopEnded(_)
\* read_iso, lines 262-267: leave the directories that end at entry_index
PopEnded(r) ==
    IF r.dir_end_indices # <<>>
       /\ r.dir_end_indices[Len(r.dir_end_indices)] = Wide(r.entry_index)
    THEN PopEnded([r EXCEPT
             !.dir_end_indices = SubSeq(@, 1, Len(@) - 1),
             !.path = SubSeq(@, 1, Len(@) - 1)])
    ELSE r

\* read_iso, lines 246-259: the header words and ./root
read_iso_open ==
    /\ pc = "r_open"
    /\ UNCHANGED <<cli, build, boot, disc, iso, lay, entry_offset, string_offset,
                   ops, orig>>
    /\ LET at_fst      == Wide(OFFSET_TO_FST_OFFSET)
           fst_offset  == read_u32(iso, at_fst)
           at_count    == U32Add(fst_offset, Wide(8))
           entry_count == read_u32(iso, at_count)
           product     == WMul12(entry_count)
           string_table_offset == U32Add(fst_offset, AsU32(product))
           entry_start_offset  == U32Add(fst_offset, Wide(12))
           made        == create_dir_all(host, <<>>)
       IN  IF \/ ~InRange(iso, at_fst, Wide(4))
              \/ Checked(U32AddOverflows(fst_offset, Wide(8)))
              \/ ~InRange(iso, at_count, Wide(4))
              \/ Checked(product.hi >= HALF)
              \/ Checked(U32AddOverflows(fst_offset, AsU32(product)))
              \/ Checked(U32AddOverflows(fst_offset, Wide(12)))
           THEN Finish("panic") /\ UNCHANGED <<host, rd>>
           ELSE IF ~made.ok
           THEN Finish("CreateDirError") /\ UNCHANGED <<host, rd>>
           ELSE /\ host' = made.fs
                /\ rd' = [NoRd EXCEPT
                            !.fst_offset = fst_offset,
                            !.entry_count = entry_count,
                            !.string_table_offset = string_table_offset,
                            !.offset = entry_start_offset,
                            !.entry_index = 1]
                /\ pc' = "r_walk"
                /\ UNCHANGED <<stack, result>>

\* read_iso, lines 261-303: one entry of the FST
read_iso_entry ==
    /\ pc = "r_walk"
    /\ WLt(rd.offset, rd.string_table_offset)
    /\ UNCHANGED <<cli, build, boot, disc, iso, lay, entry_offset, string_offset,
                   ops, orig>>
    /\ LET r0      == PopEnded(rd)
           offset  == rd.offset
           word0   == BytesOf(VecSlice(iso, offset, Wide(4)))
           is_file == word0[1] = 0
           filename_offset ==
               from_be_bytes(<< 0, word0[2], word0[3], word0[4] >>)
           name_at  == U32Add(rd.string_table_offset, filename_offset)
           found    == read_filename(iso, name_at)
           word1    == read_u32(iso, U32Add(offset, Wide(4)))
           word2    == read_u32(iso, U32Add(offset, Wide(8)))
           path     == PathPush(r0.path, found.name)
           wrote    == fs_write(host, path, VecSlice(iso, word1, word2))
           made     == create_dir_all(host, path)
           r1       == [r0 EXCEPT !.offset = U32Add(offset, Wide(12)),
                                  !.entry_index = @ + 1]
       IN  IF \/ ~InRange(iso, offset, Wide(4))
              \/ Checked(U32AddOverflows(rd.string_table_offset, filename_offset))
              \/ WLt(iso.len, name_at)
           THEN Finish("panic") /\ UNCHANGED <<host, rd>>
           ELSE IF ~found.ok
           THEN Finish("InvalidISO") /\ UNCHANGED <<host, rd>>
           ELSE IF \/ Checked(U32AddOverflows(offset, Wide(8)))
                   \/ ~InRange(iso, offset, Wide(12))
                   \/ is_file /\ ~InRange(iso, word1, word2)
                   \/ Checked(U32AddOverflows(offset, Wide(12)))
           THEN Finish("panic") /\ UNCHANGED <<host, rd>>
           ELSE IF is_file
           THEN IF wrote.ok
                THEN /\ host' = wrote.fs
                     /\ rd' = r1
                     /\ UNCHANGED <<pc, stack, result>>
                ELSE Finish("WriteFileError") /\ UNCHANGED <<host, rd>>
           ELSE IF made.ok
                THEN /\ host' = made.fs
                     /\ rd' = [r1 EXCEPT
                                 !.dir_end_indices = Append(@, word2),
                                 !.path = path]
                     /\ UNCHANGED <<pc, stack, result>>
                ELSE Finish("CreateDirError") /\ UNCHANGED <<host, rd>>

\* read_iso, lines 331-335: segment_offset + segment_size of segment i
DolSegmentEnd(v, dol_offset, i) ==
    WAdd(read_u32(v, U32Add(dol_offset, Wide(i * 4))),
         read_u32(v, U32Add(dol_offset, Wide(144 + i * 4))))

\* reading segment i of the table panics
DolSegmentPanics(v, dol_offset, i) ==
    \/ Checked(U32AddOverflows(dol_offset, Wide(144 + i * 4)))
    \/ ~InRange(v, U32Add(dol_offset, Wide(i * 4)), Wide(4))
    \/ ~InRange(v, U32Add(dol_offset, Wide(144 + i * 4)), Wide(4))
    \/ Checked(DolSegmentEnd(v, dol_offset, i).hi >= HALF)

RECURSIVE DolSize(_, _, _)
\* the largest segment end among segments i..17 (as u32)
DolSize(v, dol_offset, i) ==
    IF i > 17 THEN WZero
    ELSE WMax(AsU32(DolSegmentEnd(v, dol_offset, i)),
              DolSize(v, dol_offset, i + 1))

\* read_iso, lines 305-345: the three files of root/&&systemdata
read_iso_boot ==
    /\ pc = "r_walk"
    /\ ~WLt(rd.offset, rd.string_table_offset)
    /\ UNCHANGED <<cli, build, disc, iso, lay, entry_offset, string_offset, rd, ops,
                   orig>>
    /\ LET made  == create_dir_all(host, << SYSTEMDATA >>)
           hdr   == VecSlice(iso, WZero, Wide(HDR_SIZE))
           b1    == [boot EXCEPT !.hdr = hdr]
           apploader_code_size    == read_u32(iso, Wide(HDR_SIZE + 20))
           apploader_trailer_size == read_u32(iso, Wide(HDR_SIZE + 24))
           sum   == WAdd(apploader_code_size, apploader_trailer_size)
           apploader_total_size   == align(AsU32(sum), 5)
           end   == WAdd(Wide(HDR_SIZE), apploader_total_size)
           apploader_end          == AsU32(end)
           ldr   == SliceFrom(AllSegs(iso), Wide(HDR_SIZE), apploader_end)
           b2    == [b1 EXCEPT !.ldr = ldr]
           dol_offset == read_u32(iso, Wide(OFFSET_TO_DOL_OFFSET))
           dol_size   == DolSize(iso, dol_offset, 0)
           dol_end    == U32Add(dol_offset, dol_size)
           dol   == SliceFrom(AllSegs(iso), dol_offset, dol_end)
           b3    == [b2 EXCEPT !.dol = dol, !.ok = TRUE]
       IN  IF ~made.ok
           THEN Finish("CreateDirError") /\ UNCHANGED <<host, boot>>
           ELSE /\ host' = made.fs
                /\ IF ~InRange(iso, WZero, Wide(HDR_SIZE))
                   THEN Finish("panic") /\ UNCHANGED boot
                   ELSE IF \/ ~InRange(iso, Wide(HDR_SIZE + 20), Wide(8))
                           \/ Checked(sum.hi >= HALF)
                           \/ Checked(AlignOverflows(AsU32(sum), 5))
                           \/ Checked(end.hi >= HALF)
                           \/ WLt(apploader_end, Wide(HDR_SIZE))
                           \/ WLt(iso.len, apploader_end)
                   THEN Finish("panic") /\ boot' = b1
                   ELSE IF \/ \E i \in 0..17 : DolSegmentPanics(iso, dol_offset, i)
                           \/ Checked(U32AddOverflows(dol_offset, dol_size))
                           \/ WLt(dol_end, dol_offset)
                           \/ WLt(iso.len, dol_end)
                   THEN Finish("panic") /\ boot' = b2
                   ELSE Finish("Ok") /\ boot' = b3

----------------------------------------------------------------------------
(* The caller: what is on the host before a command, and the commands *)

MaxEntries == 3     \* entries the user puts below the root
MaxDepth == 3       \* depth of the paths the user creates
MaxOps == 2         \* commands run one after the other

\* file sizes: empty, small, the whole ROM, 2^32 - 1
FileSizes == { WZero, Wide(5), ROM_SIZE, W(65535, 65535) }

\* ISO.hdr with the four words at 0x420
HdrFile(dol, fst, size, max) ==
    Whole(Src("hdr", <<>>, << Wide(dol), Wide(fst), Wide(size), Wide(max) >>),
          Wide(HDR_SIZE))

\* AppLoader.ldr of code_size + trailer_size bytes
LdrFile(code, trailer) ==
    Whole(Src("ldr", <<>>, << Wide(code), Wide(trailer) >>),
          Wide(code + trailer))

\* Start.dol whose segment table spans `span` bytes
DolFile(span) == Whole(Src("dol", <<>>, << Wide(span) >>), Wide(span))

NoBoot == [ok |-> FALSE, hdr |-> <<>>, ldr |-> <<>>, dol |-> <<>>]

\* root/&&systemdata as the user may have it: header words left from a disc
\* laid out with 8-byte boot padding, or words that fit a 256-byte padding
BootInputs ==
    { [ok |-> TRUE, hdr |-> h, ldr |-> LdrFile(64, 32), dol |-> DolFile(288)] :
        h \in { HdrFile(9376, 9664, 24, 24), HdrFile(9472, 9984, 12, 12) } }

NoDisc == [EmptyVec EXCEPT !.panic = TRUE]

MaxFst == 3         \* entries in the FST of a disc given to `extract`

\* the string pool of a given disc: "a\0B\0"
Pool == NameA \o << 0 >> \o NameB \o << 0 >>

PoolOffsets == << 0, Len(NameA) + 1 >>

\* the payloads stored on a given disc
Payloads == << [off |-> Wide(32768), n |-> Wide(5)],
               [off |-> Wide(65536), n |-> Wide(3)] >>

PayloadSrc(k) == Src("file", << << k >> >>, <<>>)

\* the entries an FST of a given disc is made of: the file "a" at the first
\* payload, the file "B" at the second, and directories "B" with any next
\* index
EntryChoices ==
    { [dir |-> FALSE, name |-> PoolOffsets[k], w1 |-> Payloads[k].off,
       w2 |-> Payloads[k].n] : k \in 1..Len(Payloads) }
    \cup
    { [dir |-> TRUE, name |-> PoolOffsets[2], w1 |-> WZero, w2 |-> Wide(x)] :
        x \in 0..(MaxFst + 1) }

FstInputs == UNION { [1..n -> EntryChoices] : n \in 0..MaxFst }

\* the parent index stored in entry k: the innermost directory still open
ParentIn(es, k) ==
    LET open == { d \in 1..(k - 1) : es[d].dir /\ Narrow(es[d].w2) > k }
    IN  IF open = {} THEN 0 ELSE CHOOSE d \in open : \A x \in open : x <= d

EntryBytes(es, k) ==
    << IF es[k].dir THEN 1 ELSE 0, 0, 0, es[k].name >>
    \o to_be_bytes(IF es[k].dir THEN Wide(ParentIn(es, k)) ELSE es[k].w1)
    \o to_be_bytes(es[k].w2)

RECURSIVE EntriesBytes(_, _)
EntriesBytes(es, k) ==
    IF k > Len(es) THEN <<>> ELSE EntryBytes(es, k) \o EntriesBytes(es, k + 1)

FstBytes(es) ==
    << 1, 0, 0, 0, 0, 0, 0, 0 >> \o to_be_bytes(Wide(Len(es) + 1))
    \o EntriesBytes(es, 1) \o Pool

\* a disc of ROM_SIZE bytes: ISO.hdr, AppLoader.ldr, Start.dol at 0x24A0,
\* the FST at 0x25C0 (boot files padded to 8 bytes), then the payloads
MkDisc(es) ==
    LET bytes == FstBytes(es)
        hdr   == HdrFile(9376, 9664, Len(bytes), Len(bytes))
    IN  [len |-> ROM_SIZE,
         segs |-> << Seg(WZero, hdr[1]),
                     Seg(Wide(HDR_SIZE), LdrFile(64, 32)[1]),
                     Seg(Wide(9376), DolFile(288)[1]),
                     Seg(Payloads[1].off,
                         Piece(PayloadSrc(1), WZero, Payloads[1].n)),
                     Seg(Payloads[2].off,
                         Piece(PayloadSrc(2), WZero, Payloads[2].n)) >>,
         fstAt |-> 9664, fst |-> bytes, overrun |-> FALSE, panic |-> FALSE]

DiscInputs == { MkDisc(es) : es \in FstInputs }

\* offset of the FST on a disc that keeps it after the payloads
LATE_FST == 98304

\* a disc with the FST after the payloads, whose buffer ends with the last
\* byte of the last name: the NUL that would end "B" is not there
MkCutDisc(es) ==
    LET bytes == FstBytes(es)
        short == SubSeq(bytes, 1, Len(bytes) - 1)
        hdr   == HdrFile(9376, LATE_FST, Len(bytes), Len(bytes))
        full  == MkDisc(es)
    IN  [full EXCEPT !.len = Wide(LATE_FST + Len(short)),
                     !.segs = << Seg(WZero, hdr[1]) >> \o Tail(full.segs),
                     !.fstAt = LATE_FST,
                     !.fst = short]

\* a disc whose file ends one byte early: the second payload reaches past it
MkShortDisc(es) ==
    [MkDisc(es) EXCEPT !.len = WAdd(Payloads[2].off, Wide(2)),
                       !.segs = CutSegs(@, WAdd(Payloads[2].off, Wide(2)))]

\* discs that end early
ShortDiscInputs ==
    { MkCutDisc(es) : es \in FstInputs } \cup { MkShortDisc(es) : es \in FstInputs }

NoOrig == [cmd |-> "none", host |-> {}, boot |-> NoBoot, disc |-> NoDisc]

UserNodes == host \ { RootNode, SysNode }

UserPaths ==
    UNION { [1..d -> Names] : d \in 1..MaxDepth }

CanCreate(path) ==
    /\ pc = "shell" /\ ops = <<>>
    /\ Cardinality(UserNodes) < MaxEntries
    /\ ~Exists(host, path)
    /\ IsDir(host, Parent(path))
    /\ Parent(path) # << SYSTEMDATA >>

Create(node) ==
    /\ host' = host \cup { node }
    /\ UNCHANGED <<cli, build, boot, disc, pc, iso, lay, entry_offset,
                   string_offset, stack, rd, result, ops, orig>>

\* the user puts a file below the root
MkFile ==
    \E path \in UserPaths, size \in FileSizes :
        /\ CanCreate(path)
        /\ Create(Node(path, "file", Whole(Src("file", path, <<>>), size)))

\* the user makes a directory below the root
MkDir ==
    \E path \in UserPaths :
        /\ CanCreate(path)
        /\ Create(Node(path, "dir", <<>>))

\* the user makes a symbolic link below the root
MkSymlink ==
    \E path \in UserPaths :
        /\ CanCreate(path)
        /\ Create(Node(path, "symlink", <<>>))

\* a command is run first, or after the other command has succeeded
MayRun(cmd) ==
    /\ pc = "shell" /\ Len(ops) < MaxOps
    /\ ops # <<>> => ops[Len(ops)] # cmd /\ result = "Ok"

\* main, lines 197-205: `rebuild <root path>`
Rebuild ==
    /\ MayRun("rebuild")
    /\ pc' = "w_boot"
    /\ ops' = Append(ops, "rebuild")
    /\ iso' = EmptyVec
    /\ result' = "none"
    /\ lay' = NoLay
    /\ orig' = IF ops = <<>>
               THEN [cmd |-> "rebuild", host |-> host, boot |-> boot,
                     disc |-> disc]
               ELSE orig
    /\ UNCHANGED <<cli, build, host, boot, disc, entry_offset, string_offset,
                   stack, rd>>

\* main, lines 166-177: `extract <iso path>`
Extract ==
    /\ MayRun("extract")
    /\ disc # NoDisc
    /\ pc' = "r_open"
    /\ ops' = Append(ops, "extract")
    /\ iso' = disc
    /\ result' = "none"
    /\ rd' = NoRd
    /\ orig' = IF ops = <<>>
               THEN [cmd |-> "extract", host |-> host, boot |-> boot,
                     disc |-> disc]
               ELSE orig
    /\ UNCHANGED <<cli, build, host, boot, disc, lay, entry_offset, string_offset,
                   stack>>

\* no arguments yet
NoArgs == [game_id |-> <<>>, title |-> <<>>, has_title |-> FALSE, ops |-> <<>>]

\* no file at the path given to set-header
NoTarget == [exists |-> FALSE, bytes |-> <<>>]

\* operate_on_iso has not run
NoEd ==
    [before |-> NoDisc, events |-> <<>>, placed |-> <<>>, boots |-> <<>>,
     used |-> <<>>, dol_offset |-> 0, step |-> 0, i |-> 0, log |-> <<>>,
     first |-> <<>>, done |-> 0]

Start ==
    /\ pc = "shell"
    /\ iso = EmptyVec
    /\ lay = NoLay
    /\ entry_offset = 0
    /\ string_offset = 0
    /\ stack = <<>>
    /\ rd = NoRd
    /\ result = "none"
    /\ ops = <<>>
    /\ orig = NoOrig
    /\ args = NoArgs
    /\ target = NoTarget
    /\ ed = NoEd

\* before `rebuild`: the user fills the root, with or without &&systemdata
Init ==
    /\ Start /\ build \in { "debug", "release" }
    /\ disc = NoDisc
    /\ \/ host = { RootNode, SysNode } /\ boot \in BootInputs
       \/ host \in { {}, { RootNode } } /\ boot = NoBoot

\* what may be below ./root before `extract`: nothing, an empty root, or a
\* root that holds a file or a directory
ExistingRoots ==
    { {}, { RootNode },
      { RootNode, Node(<< NameA >>, "file",
                       Whole(Src("file", << NameA >>, <<>>), Wide(5))) },
      { RootNode, Node(<< NameB >>, "dir", <<>>) } }

\* before `extract`: a disc, and ./root
InitExtract ==
    /\ Start /\ build = "release"
    /\ \/ disc \in DiscInputs /\ host \in ExistingRoots
       \/ disc \in ShortDiscInputs /\ host = {}
    /\ boot = NoBoot

Run ==
    \/ Rebuild \/ Extract
    \/ read_iso_open \/ read_iso_entry \/ read_iso_boot
    \/ write_iso_boot \/ write_iso_fst
    \/ write_dir_file \/ write_dir_dir \/ write_dir_skip \/ write_dir_return
    \/ write_iso_end

Next == MkFile \/ MkDir \/ MkSymlink \/ Run

Spec == Init /\ [][Next]_vars

SpecExtract == InitExtract /\ [][Run]_vars

----------------------------------------------------------------------------
(* Reading the FST of a buffer back (entry k is 12 bytes at 12 * k) *)

\* word w (0, 1, 2) of entry k
FstWord(v, k, w) ==
    from_be_bytes(SubSeq(v.fst, 12 * k + 4 * w + 1, 12 * k + 4 * w + 4))

\* the root entry's third word: the number of entries, the root included
TotalEntries(v) == Narrow(FstWord(v, 0, 2))

EntryIsDir(v, k) == v.fst[12 * k + 1] # 0

DirParent(v, k) == Narrow(FstWord(v, k, 1))

DirNext(v, k) == Narrow(FstWord(v, k, 2))

RECURSIVE PoolName(_, _)
\* the bytes of the FST from position `at` (1-based) up to the first NUL
PoolName(v, at) ==
    IF at > Len(v.fst) \/ v.fst[at] = 0 THEN <<>>
    ELSE << v.fst[at] >> \o PoolName(v, at + 1)

\* the name of entry k, from the string pool after the entries
EntryName(v, k) ==
    LET w == FstWord(v, k, 0)
    IN  PoolName(v, 12 * TotalEntries(v) + (w.hi % 256) * HALF + w.lo + 1)

\* the entries 1 .. n - 1 of the FST
Entries(v) == 1..(TotalEntries(v) - 1)

\* the extent of file entry k: [offset, offset + size field)
ExtentStart(v, k) == FstWord(v, k, 1)

ExtentEnd(v, k) == WAdd(FstWord(v, k, 1), FstWord(v, k, 2))

RECURSIVE TreeFrom(_, _)
\* the files and directories the entries from r.entry_index on describe,
\* with r.path and r.dir_end_indices as the reader keeps them
TreeFrom(v, r) ==
    IF r.entry_index >= TotalEntries(v) THEN {}
    ELSE LET r0   == PopEnded(r)
             k    == r.entry_index
             path == PathPush(r0.path, EntryName(v, k))
             r1   == [r0 EXCEPT !.entry_index = k + 1]
         IN  IF EntryIsDir(v, k)
             THEN { Node(path, "dir", <<>>) }
                  \cup TreeFrom(v, [r1 EXCEPT
                           !.dir_end_indices = Append(@, FstWord(v, k, 2)),
                           !.path = path])
             ELSE { Node(path, "file",
                         VecSlice(v, FstWord(v, k, 1), FstWord(v, k, 2))) }
                  \cup TreeFrom(v, r1)

\* the tree an FST describes
TreeOf(v) == TreeFrom(v, [NoRd EXCEPT !.entry_index = 1])

\* the last command was `rebuild` and it wrote an ISO
Built ==
    /\ pc = "shell" /\ ops # <<>> /\ ops[Len(ops)] = "rebuild"
    /\ result = "Ok"

\* write_dir is at work on the FST of `iso`
Walking == pc = "w_walk" /\ ops # <<>> /\ ops[Len(ops)] = "rebuild"

\* the entries write_dir has written so far
Written == 1..((entry_offset - lay.entry_start) \div 12)

----------------------------------------------------------------------------
(* Claims about write_iso *)

\* directory d lies inside directory i
NestedWithin(v, d, i) == i < d /\ d < DirNext(v, i) /\ EntryIsDir(v, d)

FstSelfConsistent(v) ==
    \A i \in Entries(v) :
        EntryIsDir(v, i) =>
            /\ DirNext(v, i) > i
            /\ DirNext(v, i) <= TotalEntries(v)
            /\ \A j \in (i + 1)..(DirNext(v, i) - 1) :
                   EntryIsDir(v, j) =>
                       \/ DirParent(v, j) = i
                       \/ NestedWithin(v, DirParent(v, j), i)

\* C2: in the FST that write_iso produces, every directory entry at index i
\* has next_index > i and next_index <= the root's entry count, and every
\* directory entry between i and its next_index has as parent i or a
\* directory nested within i.
C2_FstSelfConsistent == Built => FstSelfConsistent(disc)

\* C2 witness: an ISO was built whose FST holds a directory in a directory
\* in a directory (entries 1, 2, 3), and an empty directory
C2_Witness ==
    /\ Built /\ TotalEntries(disc) = 4
    /\ \A k \in 1..3 : EntryIsDir(disc, k)
    /\ DirParent(disc, 2) = 1 /\ DirParent(disc, 3) = 2
    /\ DirNext(disc, 1) = 4 /\ DirNext(disc, 3) = 4

\* C3: every file entry written by write_iso has data_offset mod 32768 = 0,
\* at every step of the walk and in the finished ISO, for every input tree.
C3_PayloadAligned ==
    Walking \/ Built =>
        \A k \in Written :
            ~EntryIsDir(iso, k) => ExtentStart(iso, k).lo % 32768 = 0

\* C3 witness: an ISO was built with an empty file directly under the root
\* (entry 1, parentless) and a file placed at or after 0x10000
C3_Witness ==
    /\ Built
    /\ \E k \in Entries(disc) :
           /\ ~EntryIsDir(disc, k) /\ FstWord(disc, k, 2) = WZero
           /\ \A d \in 1..(k - 1) : ~EntryIsDir(disc, d)
    /\ \E k \in Entries(disc) :
           ~EntryIsDir(disc, k) /\ ExtentStart(disc, k).hi > 0

----------------------------------------------------------------------------
(* Claims about extract followed by rebuild *)

\* header word i (0..3) of the four at 0x420
HeaderWord(v, i) == read_u32(v, Wide(OFFSET_TO_DOL_OFFSET + 4 * i))

\* the size of the FST write_iso laid out: root entry, entries, strings
FstSize == lay.string_end - lay.fst_offset

\* an ISO whose FST is well formed: directories close after they open and
\* inside the directory that holds them, and no path occurs twice
ValidDisc(v) ==
    /\ FstSelfConsistent(v)
    /\ \A i \in Entries(v) : \A j \in Entries(v) :
           EntryIsDir(v, i) /\ EntryIsDir(v, j) /\ i < j /\ j < DirNext(v, i)
               => DirNext(v, j) <= DirNext(v, i)
    /\ Cardinality({ n.path : n \in TreeOf(v) }) = TotalEntries(v) - 1

\* `extract` of a disc into a fresh ./root, then `rebuild`, wrote an ISO
RoundTripDone ==
    /\ Built /\ ops = << "extract", "rebuild" >>
    /\ orig.host \in { {}, { RootNode } }
    /\ ValidDisc(orig.disc)

\* C1: extracting a valid ISO and rebuilding the extracted tree yields an
\* ISO with the same files, the same contents and the same directories, and
\* header words dol_offset / fst_offset / fst_size that describe the rebuilt
\* layout.
C1_RoundTrip ==
    RoundTripDone =>
        /\ TreeOf(disc) = TreeOf(orig.disc)
        /\ HeaderWord(disc, 0) = Wide(lay.dol_offset)
        /\ HeaderWord(disc, 1) = Wide(lay.fst_offset)
        /\ HeaderWord(disc, 2) = Wide(FstSize)

----------------------------------------------------------------------------
(* Claims about the layout write_iso produces *)

FileEntries(v) == { k \in Entries(v) : ~EntryIsDir(v, k) }

\* the extents [a, b) and [c, d) do not meet
Apart(a, b, c, d) == WLe(b, c) \/ WLe(d, a)

\* C4: in the ISO write_iso produces, the extents of two distinct file
\* entries never overlap, and no file extent overlaps the boot region or
\* the FST region [fst_offset, fst_offset + fst_size).
C4_NoOverlap ==
    Built =>
        /\ \A j, k \in FileEntries(disc) :
               j # k => Apart(ExtentStart(disc, j), ExtentEnd(disc, j),
                              ExtentStart(disc, k), ExtentEnd(disc, k))
        /\ \A k \in FileEntries(disc) :
               Apart(ExtentStart(disc, k), ExtentEnd(disc, k),
                     WZero, Wide(lay.fst_offset + FstSize))

\* ASCII lower case of a byte
Lower(b) == IF b >= 65 /\ b <= 90 THEN b + 32 ELSE b

RECURSIVE NameLe(_, _)
\* a <= b in ASCII case-insensitive order
NameLe(a, b) ==
    IF a = <<>> THEN TRUE
    ELSE IF b = <<>> THEN FALSE
    ELSE IF Lower(a[1]) # Lower(b[1]) THEN Lower(a[1]) < Lower(b[1])
    ELSE NameLe(Tail(a), Tail(b))

RECURSIVE ChildrenFrom(_, _, _)
\* the direct children among the entries k .. end - 1, in FST order
ChildrenFrom(v, k, end) ==
    IF k >= end THEN <<>>
    ELSE << k >>
         \o ChildrenFrom(v, IF EntryIsDir(v, k) /\ DirNext(v, k) > k
                            THEN DirNext(v, k) ELSE k + 1, end)

\* the direct children of directory d (0: the root), in FST order
ChildrenOf(v, d) == ChildrenFrom(v, d + 1, DirNext(v, d))

SiblingsSorted(v) ==
    \A d \in { 0 } \cup { k \in Entries(v) : EntryIsDir(v, k) } :
        LET c == ChildrenOf(v, d)
        IN  \A x \in 1..(Len(c) - 1) :
                NameLe(EntryName(v, c[x]), EntryName(v, c[x + 1]))

\* C5: in every ISO write_iso produces, the direct children of every
\* directory (the root included) appear in the FST in ASCII
\* case-insensitive ascending name order, whatever order the host
\* directory listing returns them in.
C5_SiblingOrder == Built => SiblingsSorted(disc)

----------------------------------------------------------------------------
(* Claims about the size, the header and the names of the output *)

\* the regular files of the tree with no `&&systemdata` on their path
PayloadFiles ==
    { n \in host : n.kind = "file"
                   /\ \A i \in 1..Len(n.path) : n.path[i] # SYSTEMDATA }

RECURSIVE TotalSize(_)
\* the bytes of a set of files, together
TotalSize(files) ==
    IF files = {} THEN WZero
    ELSE LET f == CHOOSE x \in files : TRUE
         IN  WAdd(CLen(f.data), TotalSize(files \ { f }))

\* write_iso has returned (the boot files and the root could be read)
Returned ==
    /\ pc = "shell" /\ ops # <<>> /\ ops[Len(ops)] = "rebuild"
    /\ result \notin { "ReadFileError", "ReadDirError" }

\* the end of the last payload in the output
LastPayloadEnd(v) ==
    IF v.segs = <<>> THEN WZero
    ELSE WAdd(v.segs[Len(v.segs)].off, v.segs[Len(v.segs)].n)

\* C6: write_iso returns Ok only when the laid-out content (which holds at
\* least the bytes of every payload file) is at most ROM_SIZE, and then the
\* buffer is exactly ROM_SIZE long with zero padding after the last payload;
\* for every tree whose content exceeds ROM_SIZE, totals beyond 32 bits
\* included, it returns ISOTooLarge.
C6_SizeLimit ==
    Returned =>
        /\ result = "Ok" =>
               /\ WLe(TotalSize(PayloadFiles), ROM_SIZE)
               /\ disc.len = ROM_SIZE
               /\ WLe(LastPayloadEnd(disc), ROM_SIZE)
        /\ WLt(ROM_SIZE, TotalSize(PayloadFiles)) => result = "ISOTooLarge"

\* C7: write_iso patches the four header words at 0x420 of its output:
\* 0x420 holds the offset of Start.dol in the output, 0x424 the offset of
\* the root FST entry, 0x428 and 0x42C the size of the FST, whatever the
\* input ISO.hdr held there.
C7_HeaderPatched ==
    Built =>
        /\ HeaderWord(disc, 0) = Wide(lay.dol_offset)
        /\ HeaderWord(disc, 1) = Wide(lay.fst_offset)
        /\ HeaderWord(disc, 2) = Wide(FstSize)
        /\ HeaderWord(disc, 3) = Wide(FstSize)

\* C8: no FST entry that write_iso produces, file or directory, is named
\* `&&systemdata`: a host entry of that name is skipped at any depth,
\* whatever its kind.
C8_NoSystemdataEntry ==
    Built => \A k \in Entries(disc) : EntryName(disc, k) # SYSTEMDATA

----------------------------------------------------------------------------
(* Claims about read_iso *)

\* `extract` is the first command, running or finished
Extracting == ops = << "extract" >>

\* C9: read_iso fails, creating and overwriting nothing, when ./root exists
\* and has entries; it goes on only when the root is absent or empty.
C9_RootMustBeEmpty ==
    Extracting /\ Children(orig.host, <<>>) # {} =>
        /\ host = orig.host
        /\ result # "Ok"

\* the FST has a directory entry whose next_index is not past its own index
HasStaleNext(v) ==
    \E i \in Entries(v) : EntryIsDir(v, i) /\ DirNext(v, i) <= i

\* C10: the reader returns InvalidISO for an FST with a directory entry at
\* index i whose next_index is not greater than i, and extracts nothing
\* from the entries after it.
C10_StaleNextRejected ==
    /\ Extracting /\ pc = "shell" /\ HasStaleNext(orig.disc)
           => result = "InvalidISO"
    /\ Extracting /\ pc = "r_walk" /\ HasStaleNext(orig.disc) =>
           \A i \in Entries(orig.disc) :
               EntryIsDir(orig.disc, i) /\ DirNext(orig.disc, i) <= i
                   => rd.entry_index <= i + 1

----------------------------------------------------------------------------
(* Claims about the errors of read_iso *)

\* the place in iso.fst (1-based) where the name of the entry under the
\* reader's cursor starts
CursorNameAt ==
    LET k == (Narrow(rd.offset) - iso.fstAt) \div 12
        w == FstWord(iso, k, 0)
    IN  Narrow(rd.string_table_offset) + (w.hi % 256) * HALF + w.lo
        - iso.fstAt + 1

\* the reader is about to read an entry whose name starts inside the buffer
\* and is followed by no NUL up to the end of the buffer
AtUnterminatedName ==
    /\ pc = "r_walk" /\ WLt(rd.offset, rd.string_table_offset)
    /\ iso.len = Wide(iso.fstAt + Len(iso.fst))
    /\ CursorNameAt >= 1 /\ CursorNameAt <= Len(iso.fst)
    /\ \A q \in CursorNameAt..Len(iso.fst) : iso.fst[q] # 0

\* C11: when the name of an entry has no NUL before the end of the buffer,
\* read_iso returns InvalidISO at that entry: it writes no file and no
\* directory for it or for a later entry, and no boot blob.
C11_UnterminatedName ==
    [][AtUnterminatedName =>
          /\ pc' = "shell" /\ result' = "InvalidISO"
          /\ host' = host /\ boot' = boot]_vars

\* C11 witness: read_iso has returned InvalidISO at entry 2, whose name is
\* unterminated, after it wrote the file of entry 1
C11_Witness ==
    /\ Extracting /\ pc = "shell" /\ result = "InvalidISO"
    /\ rd.entry_index = 2 /\ rd.offset = Wide(iso.fstAt + 24)
    /\ iso.len = Wide(iso.fstAt + Len(iso.fst))
    /\ \A q \in CursorNameAt..Len(iso.fst) : iso.fst[q] # 0
    /\ Exists(host, << NameA >>) /\ ~Exists(host, << SYSTEMDATA >>)
    /\ boot = NoBoot

\* C12: read_iso reports every failure as an Err value and never aborts,
\* also for a buffer whose offsets and sizes reach past its end.
C12_NoAbort == Extracting /\ pc = "shell" => result # "panic"

----------------------------------------------------------------------------
(* Claims about the command line *)

\* the exit code of the process for the outcome of a command: main returns
\* after Ok, calls exit(1) in every Err arm, and a panic ends the process
\* with Rust's code 101
ExitCode(res) ==
    CASE res = "Ok"    -> 0
      [] res = "panic" -> 101
      [] OTHER         -> 1

\* a command has ended
Ended == pc = "shell" /\ ops # <<>>

\* C13: a command that ends with an error, a host I/O failure such as an
\* output ISO that cannot be written included, exits with code 1, and a
\* command that succeeds exits with code 0.
C13_ExitCodes ==
    Ended => ExitCode(result) = (IF result = "Ok" THEN 0 ELSE 1)

----------------------------------------------------------------------------
(* main: `set-header <ISO.hdr path | iso path> <game ID> [game title]` *)

\* str::is_char_boundary for the UTF-8 bytes s and the index i
is_char_boundary(s, i) ==
    \/ i = 0 \/ i = Len(s)
    \/ i < Len(s) /\ s[i + 1] \notin 128..191

\* main, line 131: slicing game_id[0..4] panics inside a character; the
\* length is tested first
SlicePanics(game_id) == Len(game_id) = 6 /\ ~is_char_boundary(game_id, 4)

\* a faulty test of the game ID: only its length
InvalidGameId_len(game_id) == Len(game_id) # 6

\* main, lines 130-132: the test that rejects a game ID; a character that is
\* not ASCII has no byte in 'A'..'Z' or '0'..'9'
InvalidGameId(game_id) ==
    \/ Len(game_id) # 6
    \/ \E i \in 1..4 : game_id[i] \notin 65..90
    \/ \E i \in 5..6 : game_id[i] \notin 48..57

\* Write::write_all of data at position pos of a file opened for writing:
\* the file grows as needed, and a gap reads as zeros
write_all(bytes, pos, data) ==
    LET n == IF Len(bytes) > pos + Len(data) THEN Len(bytes)
             ELSE pos + Len(data)
    IN  [i \in 1..n |->
            IF i > pos /\ i <= pos + Len(data) THEN data[i - pos]
            ELSE IF i <= Len(bytes) THEN bytes[i]
            ELSE 0]

\* n bytes, all b
Fill(n, b) == [i \in 1..n |-> b]

\* main, line 152: the title in a field of 0x20 zero bytes
TitleField(title) == title \o Fill(32 - Len(title), 0)

\* game IDs as UTF-8: GALE01, gale01, GALE0, GALE012, GALEX1, GA1E01,
\* ABC(e-acute)1 and (e-acute)AB01, six bytes each, and the empty string
GameIds ==
    { << 71, 65, 76, 69, 48, 49 >>, << 103, 97, 108, 101, 48, 49 >>,
      << 71, 65, 76, 69, 48 >>, << 71, 65, 76, 69, 48, 49, 50 >>,
      << 71, 65, 76, 69, 88, 49 >>, << 71, 65, 49, 69, 48, 49 >>,
      << 65, 66, 67, 195, 169, 49 >>, << 195, 169, 65, 66, 48, 49 >>,
      <<>> }

\* titles: of 5, 0x1F and 0x20 bytes
Titles == { Fill(5, 84), Fill(31, 84), Fill(32, 84) }

\* the arguments of set-header
HeaderArgs ==
    { [NoArgs EXCEPT !.game_id = g, !.title = t, !.has_title = TRUE] :
          g \in GameIds, t \in Titles }
    \cup { [NoArgs EXCEPT !.game_id = g] : g \in GameIds }

\* the file at <path>: none, the start of a header with ID and title, or a
\* file of three bytes
TargetInputs ==
    { NoTarget,
      [exists |-> TRUE,
       bytes |-> << 71, 75, 89, 69, 57, 57 >> \o Fill(26, 0) \o Fill(32, 75)],
      [exists |-> TRUE, bytes |-> << 1, 2, 3 >>] }

\* main, lines 118-120
SetHeader ==
    /\ pc = "shell" /\ ops = <<>>
    /\ args' \in HeaderArgs
    /\ pc' = "h_open"
    /\ ops' = << "set-header" >>
    /\ result' = "none"
    /\ orig' = [cmd |-> "set-header", host |-> host, boot |-> boot,
                disc |-> disc, target |-> target]
    /\ UNCHANGED <<target, ed, build, host, boot, disc, iso, lay, entry_offset,
                   string_offset, stack, rd>>

\* main, lines 122-128: File::options().write(true).open(path)
set_header_open ==
    /\ pc = "h_open"
    /\ UNCHANGED <<cli, build, host, boot, disc, iso, lay, entry_offset,
                   string_offset, rd, ops, orig>>
    /\ IF target.exists
       THEN pc' = "h_id" /\ UNCHANGED <<stack, result>>
       ELSE Finish("OpenError")

\* main, lines 130-141: the game ID is tested, then written at the start
set_header_id ==
    /\ pc = "h_id"
    /\ UNCHANGED <<args, ed, build, host, boot, disc, iso, lay, entry_offset,
                   string_offset, rd, ops, orig>>
    /\ IF SlicePanics(args.game_id)
       THEN Finish("panic") /\ UNCHANGED target
       ELSE IF InvalidGameId(args.game_id)
       THEN Finish("InvalidGameID") /\ UNCHANGED target
       ELSE /\ target' = [target EXCEPT
                              !.bytes = write_all(@, 0, args.game_id)]
            /\ pc' = "h_title"
            /\ UNCHANGED <<stack, result>>

\* main, lines 143-163: the title, if given, is written at 0x20
set_header_title ==
    /\ pc = "h_title"
    /\ UNCHANGED <<args, ed, build, host, boot, disc, iso, lay, entry_offset,
                   string_offset, rd, ops, orig>>
    /\ IF ~args.has_title
       THEN Finish("Ok") /\ UNCHANGED target
       ELSE IF Len(args.title) >= 32
       THEN Finish("TitleTooLong") /\ UNCHANGED target
       ELSE /\ target' = [target EXCEPT
                              !.bytes = write_all(@, 32, TitleField(args.title))]
            /\ Finish("Ok")

\* before `set-header`: the file at <path>
InitHeader ==
    /\ pc = "shell" /\ iso = EmptyVec /\ lay = NoLay
    /\ entry_offset = 0 /\ string_offset = 0 /\ stack = <<>> /\ rd = NoRd
    /\ result = "none" /\ ops = <<>> /\ orig = NoOrig
    /\ build = "release" /\ host = {} /\ boot = NoBoot /\ disc = NoDisc
    /\ args = NoArgs /\ ed = NoEd
    /\ target \in TargetInputs

NextHeader ==
    SetHeader \/ set_header_open \/ set_header_id \/ set_header_title

SpecHeader == InitHeader /\ [][NextHeader]_vars

\* the bytes of a game ID: four upper-case letters, then two digits
IsGameId(g) ==
    /\ DOMAIN g = 1..6
    /\ { g[1], g[2], g[3], g[4] } \subseteq 65..90
    /\ { g[5], g[6] } \subseteq 48..57

\* C14: set-header rejects a game ID that is not four upper-case letters and
\* two digits before it writes any byte: the file keeps its contents, and the
\* command does not succeed.
C14_BadIdWritesNothing ==
    ops = << "set-header" >> /\ ~IsGameId(args.game_id) =>
        /\ target = orig.target
        /\ pc = "shell" => result # "Ok"

\* C14 witness: a six-byte ID in lower case was rejected, the file was there
\* and opened, and it still holds its bytes
C14_Witness ==
    /\ ops = << "set-header" >> /\ pc = "shell"
    /\ result = "InvalidGameID"
    /\ args.game_id = << 103, 97, 108, 101, 48, 49 >> /\ args.has_title
    /\ target.exists /\ Len(target.bytes) = 64
    /\ target = orig.target

----------------------------------------------------------------------------
(* The in-memory filesystem of the editor: a sequence of events *)

PushDir(name) == [t |-> "PushDir", name |-> name, data_offset |-> 0, size |-> 0]

PopDir == [t |-> "PopDir", name |-> <<>>, data_offset |-> 0, size |-> 0]

File(name, data_offset, size) ==
    [t |-> "File", name |-> name, data_offset |-> data_offset, size |-> size]

RECURSIVE SubAt(_, _, _)
\* the events at the positions in `keep`, from position k on
SubAt(evs, keep, k) ==
    IF k > Len(evs) THEN <<>>
    ELSE (IF k \in keep THEN << evs[k] >> ELSE <<>>) \o SubAt(evs, keep, k + 1)

\* evs with the events xs put in before position k
InsertAt(evs, k, xs) ==
    SubSeq(evs, 1, k - 1) \o xs \o SubSeq(evs, k, Len(evs))

RECURSIVE OpenTo(_, _)
\* the path stack after the first k events: the names of the open directories
OpenTo(evs, k) ==
    IF k = 0 THEN <<>>
    ELSE LET p == OpenTo(evs, k - 1)
         IN  IF evs[k].t = "PushDir" THEN Append(p, evs[k].name)
             ELSE IF evs[k].t = "PopDir" THEN SubSeq(p, 1, Len(p) - 1)
             ELSE p

\* the path of the File or PushDir event at position k
PathOf(evs, k) == Append(OpenTo(evs, k - 1), evs[k].name)

\* the position of the PopDir that matches the PushDir at position k
MatchPop(evs, k) ==
    LET d == Len(OpenTo(evs, k))
    IN  CHOOSE q \in (k + 1)..Len(evs) :
            /\ Len(OpenTo(evs, q)) = d - 1
            /\ \A x \in (k + 1)..(q - 1) : Len(OpenTo(evs, x)) >= d

\* the 1-based entry index the writer has reached before position k
IndexAt(evs, k) ==
    1 + Cardinality({ q \in 1..(k - 1) : evs[q].t # "PopDir" })

\* the position of the PushDir that holds position k (0: the root)
HolderOf(evs, k) ==
    LET open == { q \in 1..(k - 1) :
                      evs[q].t = "PushDir" /\ MatchPop(evs, q) > k }
    IN  IF open = {} THEN 0 ELSE CHOOSE q \in open : \A x \in open : x <= q

RECURSIVE NameOffset(_, _)
\* the string pool offset of the name of the event at position k: names are
\* appended in the order entries are emitted, each followed by one NUL
NameOffset(evs, k) ==
    IF k = 1 THEN 0
    ELSE NameOffset(evs, k - 1)
         + (IF evs[k - 1].t = "PopDir" THEN 0 ELSE Len(evs[k - 1].name) + 1)

\* the 12 bytes of the entry of the event at position k
EventEntry(evs, k) ==
    LET o == NameOffset(evs, k)
        e == evs[k]
    IN  << IF e.t = "PushDir" THEN 1 ELSE 0,
           (o \div HALF) % 256, (o \div 256) % 256, o % 256 >>
        \o (IF e.t = "PushDir"
            THEN LET h == HolderOf(evs, k)
                 IN  to_be_bytes(Wide(IF h = 0 THEN 0 ELSE IndexAt(evs, h)))
                     \o to_be_bytes(Wide(IndexAt(evs, MatchPop(evs, k))))
            ELSE to_be_bytes(Wide(e.data_offset)) \o to_be_bytes(Wide(e.size)))

RECURSIVE EntriesFrom(_, _)
EntriesFrom(evs, k) ==
    IF k > Len(evs) THEN <<>>
    ELSE (IF evs[k].t = "PopDir" THEN <<>> ELSE EventEntry(evs, k))
         \o EntriesFrom(evs, k + 1)

RECURSIVE StringPool(_, _)
StringPool(evs, k) ==
    IF k > Len(evs) THEN <<>>
    ELSE (IF evs[k].t = "PopDir" THEN <<>> ELSE evs[k].name \o << 0 >>)
         \o StringPool(evs, k + 1)

\* the FST writer: the root header, whose next_index is the final entry
\* index, the entries, then the string pool
write_fst(evs) ==
    << 1, 0, 0, 0, 0, 0, 0, 0 >>
    \o to_be_bytes(Wide(IndexAt(evs, Len(evs) + 1)))
    \o EntriesFrom(evs, 1) \o StringPool(evs, 1)

RECURSIVE ReadEvents(_, _, _)
\* the FST reader: walk the entries from i on with a stack of next_index
\* values, emitting PopDir while the top of the stack equals i
ReadEvents(v, i, ends) ==
    IF ends # <<>> /\ ends[Len(ends)] = i
    THEN << PopDir >> \o ReadEvents(v, i, SubSeq(ends, 1, Len(ends) - 1))
    ELSE IF i >= TotalEntries(v) THEN [k \in 1..Len(ends) |-> PopDir]
    ELSE IF EntryIsDir(v, i)
    THEN << PushDir(EntryName(v, i)) >>
         \o ReadEvents(v, i + 1, Append(ends, DirNext(v, i)))
    ELSE << File(EntryName(v, i), Narrow(FstWord(v, i, 1)),
                 Narrow(FstWord(v, i, 2))) >>
         \o ReadEvents(v, i + 1, ends)

\* the events of the FST of an ISO
read_fst(v) == ReadEvents(v, 1, <<>>)

\* a malformed FST: the header words do not lead to an FST inside the file,
\* or a next_index is not greater than its entry's index, or past the count
Malformed(v) ==
    \/ ~InRange(v, Wide(OFFSET_TO_DOL_OFFSET), Wide(16))
    \/ HeaderWord(v, 1) # Wide(v.fstAt)
    \/ Len(v.fst) < 12
    \/ ~IsSmall(FstWord(v, 0, 2))
    \/ 12 * TotalEntries(v) > Len(v.fst)
    \/ \E k \in Entries(v) :
           \/ EntryIsDir(v, k)
              /\ (~IsSmall(FstWord(v, k, 2))
                  \/ DirNext(v, k) <= k \/ DirNext(v, k) > TotalEntries(v))
           \/ ~EntryIsDir(v, k)
              /\ (~IsSmall(FstWord(v, k, 1)) \/ ~IsSmall(FstWord(v, k, 2)))

----------------------------------------------------------------------------
(* Writes into the ISO file *)

Min2(a, b) == IF a <= b THEN a ELSE b

Max2(a, b) == IF a <= b THEN b ELSE a

RECURSIVE Without(_, _, _)
\* the runs `segs` without the bytes [lo, hi)
Without(segs, lo, hi) ==
    IF segs = <<>> THEN <<>>
    ELSE LET s     == segs[1]
             a     == Narrow(s.off)
             b     == a + Narrow(s.n)
             c     == Max2(a, hi)
             left  == IF a < lo
                      THEN << [s EXCEPT !.n = Wide(Min2(b, lo) - a)] >>
                      ELSE <<>>
             right == IF b > hi
                      THEN << [s EXCEPT !.off = Wide(c),
                                        !.from = WAdd(@, Wide(c - a)),
                                        !.n = Wide(b - c)] >>
                      ELSE <<>>
         IN  left \o right \o Without(Tail(segs), lo, hi)

\* seek to `off` and write the bytes of the piece p: the runs below are cut,
\* and the bytes that land in the FST region are stored there
WritePiece(v, off, p) ==
    LET hi   == off + Narrow(p.n)
        fa   == v.fstAt
        fb   == fa + Len(v.fst)
        part(a, b) ==
            IF a < b /\ p.src # ZeroSrc
            THEN << [off |-> Wide(a), src |-> p.src,
                     from |-> WAdd(p.from, Wide(a - off)),
                     n |-> Wide(b - a)] >>
            ELSE <<>>
        rest == Without(v.segs, off, hi)
    IN  [v EXCEPT
            !.segs = SelectSeq(rest, LAMBDA s : Narrow(s.off) < off)
                     \o part(off, Min2(hi, fa)) \o part(Max2(off, fb), hi)
                     \o SelectSeq(rest, LAMBDA s : Narrow(s.off) >= hi),
            !.fst = [i \in 1..Len(v.fst) |->
                        LET o == fa + i - 1
                        IN  IF o >= off /\ o < hi
                            THEN SrcByte(p.src, WAdd(p.from, Wide(o - off)))
                            ELSE v.fst[i]]]

\* seek to `off` and write the bytes bs
WriteBytes(v, off, bs) ==
    WritePiece(v, off, Piece(FstSrc(bs), WZero, Wide(Len(bs))))

\* write the TOC at the FST offset: the region grows to hold it, and what the
\* old FST had past the end of the new one stays in the file
WriteToc(v, toc) ==
    LET old  == Len(v.fst)
        more == Max2(Len(toc) - old, 0)
        kept == BytesOf(VecSlice(v, Wide(v.fstAt + old), Wide(more)))
        v1   == [v EXCEPT !.fst = @ \o kept,
                          !.segs = Without(@, v.fstAt, v.fstAt + old + more)]
    IN  WriteBytes(v1, v.fstAt, toc)

----------------------------------------------------------------------------
(* The ISO files given to the editor *)

\* the payload stored at `off` on a given disc
StoredAt(off, size) ==
    Piece(Src("file", << << off \div 32768 >> >>, <<>>), WZero, Wide(size))

RECURSIVE WithPayloads(_, _, _)
WithPayloads(v, evs, k) ==
    IF k > Len(evs) THEN v
    ELSE WithPayloads(
             IF evs[k].t = "File"
             THEN WritePiece(v, evs[k].data_offset,
                             StoredAt(evs[k].data_offset, evs[k].size))
             ELSE v, evs, k + 1)

\* a disc of ROM_SIZE bytes with the boot files, the FST of the events evs at
\* fst_offset and the payloads of their files
EditDisc(evs, fst_offset) ==
    LET toc == write_fst(evs)
        hdr == HdrFile(9376, fst_offset, Len(toc), Len(toc))
    IN  WithPayloads(
            [len |-> ROM_SIZE,
             segs |-> << Seg(WZero, hdr[1]),
                         Seg(Wide(HDR_SIZE), LdrFile(64, 32)[1]),
                         Seg(Wide(9376), DolFile(288)[1]) >>,
             fstAt |-> fst_offset, fst |-> toc,
             overrun |-> FALSE, panic |-> FALSE], evs, 1)

\* filesystems on the discs: files "a", directories "B", payloads of 5 and 3
\* bytes; with and without an empty directory, a gap between the payloads,
\* and payloads that are not in the order of the entries
EditTrees ==
    { <<>>,
      << File(NameA, 32768, 5) >>,
      << PushDir(NameB), PopDir >>,
      << File(NameA, 32768, 5), PushDir(NameB), PopDir >>,
      << PushDir(NameB), File(NameA, 32768, 5), PopDir >>,
      << File(NameA, 32768, 5), PushDir(NameB), File(NameA, 65536, 3),
         PopDir >>,
      << File(NameA, 163840, 3), PushDir(NameB), File(NameA, 32768, 5),
         PopDir >> }

\* an FST offset that leaves 38 bytes before the first payload
TIGHT_FST == 32730

\* the discs: the FST right after Start.dol, the FST close to the first
\* payload, and a disc whose FST has a directory with next_index 0
EditDiscs ==
    { EditDisc(evs, 9664) : evs \in EditTrees }
    \cup { EditDisc(<< File(NameA, 32768, 5) >>, TIGHT_FST) }
    \cup { MkDisc(<< [dir |-> TRUE, name |-> PoolOffsets[2],
                      w1 |-> WZero, w2 |-> WZero] >>) }

----------------------------------------------------------------------------
(* operate_on_iso, phases 1 to 3: classify, load, mutate the filesystem *)

Insert(iso_path, input_path) ==
    [op |-> "Insert", iso_path |-> iso_path, input_path |-> input_path]

\* a host file that is not there
NoInput == [exists |-> FALSE, piece |-> Piece(ZeroSrc, WZero, WZero)]

Delete(iso_path) ==
    [op |-> "Delete", iso_path |-> iso_path, input_path |-> NoInput]

ISO_HDR == << 73, 83, 79, 46, 104, 100, 114 >>              \* "ISO.hdr"

APPLOADER_LDR ==                                           \* "AppLoader.ldr"
    << 65, 112, 112, 76, 111, 97, 100, 101, 114, 46, 108, 100, 114 >>

START_DOL == << 83, 116, 97, 114, 116, 46, 100, 111, 108 >> \* "Start.dol"

\* phase 1: the paths that name a boot blob
BootPaths == { << ISO_HDR >>, << APPLOADER_LDR >>, << START_DOL >> }

IsBootOp(o) == o.op = "Insert" /\ o.iso_path \in BootPaths

IsInsertOp(o) == o.op = "Insert" /\ o.iso_path \notin BootPaths

\* the size of a host file
InputSize(f) == Narrow(f.piece.n)

\* align(n, 32 KiB)
Align32K(n) == Narrow(align(Wide(n), FILE_CONTENTS_ALIGNMENT))

\* the extent [start, end) of a File event
Extent(e) == [start |-> e.data_offset, end |-> e.data_offset + e.size]

\* step 1: the events without the files whose path is a pending deletion
DeletionSweep(evs, pending) ==
    SubAt(evs, { k \in 1..Len(evs) :
                   ~(evs[k].t = "File" /\ PathOf(evs, k) \in pending) }, 1)

\* step 1: the payload extents of the files of evs, in their order
UsedBy(evs) ==
    LET files == SelectSeq(evs, LAMBDA e : e.t = "File")
    IN  [k \in 1..Len(files) |-> Extent(files[k])]

RECURSIVE Collapse(_)
\* step 2: remove a PushDir that its PopDir follows, until there is none
Collapse(evs) ==
    LET empty == { k \in 1..(Len(evs) - 1) :
                     evs[k].t = "PushDir" /\ evs[k + 1].t = "PopDir" }
    IN  IF empty = {} THEN evs
        ELSE LET k == CHOOSE x \in empty : \A y \in empty : x <= y
             IN  Collapse(SubAt(evs, (1..Len(evs)) \ { k, k + 1 }, 1))

RECURSIVE SortByStart(_)
\* step 3: `used` sorted by start
SortByStart(used) ==
    IF used = <<>> THEN <<>>
    ELSE LET k == CHOOSE x \in 1..Len(used) :
                      \A y \in 1..Len(used) : used[x].start <= used[y].start
         IN  << used[k] >>
             \o SortByStart(SubAt(used, (1..Len(used)) \ { k }, 1))

RECURSIVE MaxEnd(_)
\* the greatest end of the extents (0 for none)
MaxEnd(used) ==
    IF used = <<>> THEN 0 ELSE Max2(used[1].end, MaxEnd(Tail(used)))

\* step 3: the free ranges between adjacent used extents (those that are not
\* empty), then the trailing free space up to ROM_SIZE
FreeSpace(used) ==
    LET s    == SortByStart(used)
        gaps == [k \in 1..(Len(s) - 1) |->
                    [start |-> Align32K(s[k].end), end |-> s[k + 1].start]]
    IN  SelectSeq(gaps, LAMBDA g : g.start < g.end)
        \o << [start |-> Align32K(MaxEnd(used)), end |-> Narrow(ROM_SIZE)] >>

\* the lowest retained payload offset; with no retained payload nothing
\* below the end of the disc bounds the TOC
DataStart(used) ==
    IF used = <<>> THEN Narrow(ROM_SIZE) ELSE SortByStart(used)[1].start

RECURSIVE ChildrenIn(_, _, _)
\* the positions of the direct children among the events lo .. hi - 1
ChildrenIn(evs, lo, hi) ==
    IF lo >= hi THEN <<>>
    ELSE << lo >>
         \o ChildrenIn(evs, IF evs[lo].t = "PushDir"
                            THEN MatchPop(evs, lo) + 1 ELSE lo + 1, hi)

\* the position for a new entry `name` among the children in lo .. hi - 1:
\* before the first sibling that sorts after it, or at the end
SortedPosition(evs, lo, hi, name) ==
    LET ch    == ChildrenIn(evs, lo, hi)
        later == { k \in 1..Len(ch) : ~NameLe(evs[ch[k]].name, name) }
    IN  IF later = {} THEN hi
        ELSE ch[CHOOSE k \in later : \A x \in later : k <= x]

RECURSIVE Mkdir(_, _, _, _)
\* step 4: descend along the path into the directories that exist, insert a
\* PushDir/PopDir pair for each one that is missing, and record the position
\* of the new File event
Mkdir(evs, path, lo, hi) ==
    LET name == path[1]
        ch   == ChildrenIn(evs, lo, hi)
        same == { ch[k] : k \in { x \in 1..Len(ch) : evs[ch[x]].name = name } }
    IN  IF Len(path) = 1
        THEN IF \E k \in same : evs[k].t = "PushDir"
             THEN [err |-> "FileInsertionReplicatesFolder", events |-> evs,
                   pos |-> 0]
             ELSE [err |-> "none", events |-> evs,
                   pos |-> SortedPosition(evs, lo, hi, name)]
        ELSE IF \E k \in same : evs[k].t = "File"
        THEN [err |-> "InvalidISOPath", events |-> evs, pos |-> 0]
        ELSE IF same # {}
        THEN LET k == CHOOSE x \in same : TRUE
             IN  Mkdir(evs, Tail(path), k + 1, MatchPop(evs, k))
        ELSE LET pos == SortedPosition(evs, lo, hi, name)
             IN  Mkdir(InsertAt(evs, pos, << PushDir(name), PopDir >>),
                       Tail(path), pos + 1, pos + 1)

\* step 5, first fit: the first free range that holds `size` bytes (0: none)
FirstFit(free, size) ==
    LET fits == { k \in 1..Len(free) : free[k].end - free[k].start >= size }
    IN  IF fits = {} THEN 0 ELSE CHOOSE k \in fits : \A x \in fits : k <= x

\* a faulty step 5: the chosen range keeps its start
TakeFrom_kept(free, k, size) == free

\* step 5: the start of the chosen range moves past the file, aligned
TakeFrom(free, k, size) ==
    [free EXCEPT ![k].start = Align32K(@ + size)]

RECURSIVE PlaceInserts(_, _, _, _)
\* steps 4 to 6 for the insertions in their order
PlaceInserts(evs, free, ins, placed) ==
    IF ins = <<>>
    THEN [err |-> "none", events |-> evs, placed |-> placed]
    ELSE LET o    == ins[1]
             size == InputSize(o.input_path)
             m    == Mkdir(evs, o.iso_path, 1, Len(evs) + 1)
             k    == FirstFit(free, size)
         IN  IF m.err # "none"
             THEN [err |-> m.err, events |-> evs, placed |-> placed]
             ELSE IF k = 0
             THEN [err |-> "ISOTooLarge", events |-> evs, placed |-> placed]
             ELSE PlaceInserts(
                      InsertAt(m.events, m.pos,
                               << File(o.iso_path[Len(o.iso_path)],
                                       free[k].start, size) >>),
                      TakeFrom(free, k, size), Tail(ins),
                      Append(placed, [data_offset |-> free[k].start,
                                      piece |-> o.input_path.piece]))

\* phases 1 to 3 for the ISO v and the batch `batch`
Plan(v, batch) ==
    LET boots   == SelectSeq(batch, IsBootOp)
        ins     == SelectSeq(batch, IsInsertOp)
        dels    == { batch[k].iso_path :
                       k \in { x \in 1..Len(batch) : batch[x].op = "Delete" } }
        pending == dels \cup { ins[k].iso_path : k \in 1..Len(ins) }
        evs     == read_fst(v)
        files   == { PathOf(evs, k) :
                       k \in { x \in 1..Len(evs) : evs[x].t = "File" } }
        swept   == DeletionSweep(evs, pending)
        used    == UsedBy(swept)
        fail(e) == [err |-> e, events |-> <<>>, placed |-> <<>>,
                    used |-> <<>>, boots |-> <<>>]
    IN  IF \E k \in 1..Len(batch) :
               batch[k].op = "Insert" /\ ~batch[k].input_path.exists
        THEN fail("InvalidFSPath")
        ELSE IF \E k \in 1..Len(batch) :
               \E i \in 1..Len(batch[k].iso_path) :
                   batch[k].iso_path[i] = SYSTEMDATA
        THEN fail("InvalidISOPath")
        ELSE IF Malformed(v) THEN fail("InvalidISO")
        ELSE IF ~(dels \subseteq files) THEN fail("InvalidISOPath")
        ELSE LET r == PlaceInserts(Collapse(swept), FreeSpace(used), ins, <<>>)
             IN  [err |-> r.err, events |-> r.events, placed |-> r.placed,
                  used |-> used, boots |-> boots]

----------------------------------------------------------------------------
(* operate_on_iso, phase 4: write; and the command `fs` *)

\* a faulty order of phase 4: the TOC first
WriteOrder_toc_first == << "toc", "payload", "boot" >>

\* phase 4: the insert payloads, then the TOC and the header words, then the
\* boot blobs
WriteOrder == << "payload", "toc", "boot" >>

\* a faulty phase 3: each insert is streamed as soon as it is placed
PhaseThreeWrites_streamed(placed) == placed

\* phase 3 does no I/O to payloads: of the inserts it has placed it writes none
PhaseThreeWrites(placed) == <<>>

RECURSIVE WritePayloads(_, _)
WritePayloads(v, placed) ==
    IF placed = <<>> THEN v
    ELSE WritePayloads(WritePiece(v, placed[1].data_offset, placed[1].piece),
                       Tail(placed))

\* the reserved offset of a boot blob
BootOffset(name, dol_offset) ==
    IF name = ISO_HDR THEN 0
    ELSE IF name = APPLOADER_LDR THEN HDR_SIZE
    ELSE dol_offset

\* what the log of writes keeps of a write
Wrote(kind, off, n) == [kind |-> kind, off |-> off, n |-> n]

MaxBatch == 2       \* operations in the batches of the `fs` commands

InputFile(id, size) ==
    [exists |-> TRUE,
     piece |-> Piece(Src("host", << id >>, <<>>), WZero, Wide(size))]

\* host files of 5 bytes, of 40000 bytes and of 1.4 GiB
SmallInput == InputFile(1, 5)

BigInput == InputFile(2, 40000)

HugeInput == InputFile(3, 1433 * 2^20)

\* a host file to replace ISO.hdr, with header words of its own
HdrInput == [exists |-> TRUE, piece |-> HdrFile(9376, 9664, 12, 12)[1]]

\* paths in the ISO: a, B/a and B/B
EditPaths == { << NameA >>, << NameB, NameA >>, << NameB, NameB >> }

\* the operations of the batches
EditOps ==
    { Insert(p, f) : p \in EditPaths, f \in { SmallInput, BigInput } }
    \cup { Insert(<< NameB >>, SmallInput),
           Insert(<< NameA >>, HugeInput), Insert(<< NameA >>, NoInput),
           Insert(<< SYSTEMDATA >>, SmallInput),
           Insert(<< ISO_HDR >>, HdrInput) }
    \cup { Delete(p) : p \in EditPaths \cup { << NameB >> } }

\* the batches of at most n operations that insert no path twice
Batches(n) ==
    { b \in UNION { [1..k -> EditOps] : k \in 1..n } :
        \A i \in 1..Len(b) : \A j \in 1..Len(b) :
            i < j /\ b[i].op = "Insert" /\ b[j].op = "Insert"
                => b[i].iso_path # b[j].iso_path }

\* main, lines 58-85: `fs <iso path> (insert .. | delete ..)*`
Fs ==
    /\ pc = "shell" /\ Len(ops) < MaxOps /\ disc # NoDisc
    /\ \E batch \in Batches(MaxBatch - ed.done) :
           /\ args' = [NoArgs EXCEPT !.ops = batch]
           /\ ed' = [NoEd EXCEPT !.before = disc,
                                 !.done = ed.done + Len(batch),
                                 !.first = IF ops = <<>> THEN batch
                                           ELSE ed.first]
    /\ pc' = "e_plan"
    /\ ops' = Append(ops, "fs")
    /\ result' = "none"
    /\ orig' = IF ops = <<>>
               THEN [cmd |-> "fs", host |-> host, boot |-> boot,
                     disc |-> disc]
               ELSE orig
    /\ UNCHANGED <<target, build, host, boot, disc, iso, lay, entry_offset,
                   string_offset, stack, rd>>

\* operate_on_iso, phases 1 to 3
operate_plan ==
    /\ pc = "e_plan"
    /\ UNCHANGED <<args, target, build, host, boot, iso, lay, entry_offset,
                   string_offset, rd, ops, orig>>
    /\ LET p == Plan(disc, args.ops)
       IN  /\ disc' = WritePayloads(disc, PhaseThreeWrites(p.placed))
           /\ IF p.err # "none"
              THEN Finish(p.err) /\ UNCHANGED ed
              ELSE /\ ed' = [ed EXCEPT
                                !.events = p.events, !.placed = p.placed,
                                !.boots = p.boots, !.used = p.used,
                                !.dol_offset = Narrow(HeaderWord(disc, 0)),
                                !.step = 1, !.i = 1]
                   /\ pc' = "e_write"
                   /\ UNCHANGED <<stack, result>>

\* the part of phase 4 that is next
Writing(part) ==
    /\ pc = "e_write"
    /\ ed.step <= Len(WriteOrder) /\ WriteOrder[ed.step] = part

\* ed at the next part of phase 4
NextPart(e) == [e EXCEPT !.step = @ + 1, !.i = 1]

\* phase 4, step 1: stream the next insert to its offset
operate_payload ==
    /\ Writing("payload")
    /\ UNCHANGED <<args, target, build, host, boot, iso, lay, entry_offset,
                   string_offset, stack, rd, result, ops, orig, pc>>
    /\ IF ed.i > Len(ed.placed)
       THEN ed' = NextPart(ed) /\ UNCHANGED disc
       ELSE LET x == ed.placed[ed.i]
            IN  /\ disc' = WritePiece(disc, x.data_offset, x.piece)
                /\ ed' = [ed EXCEPT
                             !.i = @ + 1,
                             !.log = Append(@, Wrote("payload", x.data_offset,
                                                     Narrow(x.piece.n)))]

\* phase 4, steps 2 and 3: serialize the events, validate the length of the
\* TOC, write it at fst_offset and update fst_size and max_fst_size
operate_toc ==
    /\ Writing("toc")
    /\ UNCHANGED <<args, target, build, host, boot, iso, lay, entry_offset,
                   string_offset, rd, ops, orig>>
    /\ LET toc  == write_fst(ed.events)
           size == to_be_bytes(Wide(Len(toc)))
       IN  IF Len(toc) > DataStart(ed.used) - disc.fstAt
           THEN Finish("TOCTooLarge") /\ UNCHANGED <<disc, ed>>
           ELSE /\ disc' = WriteBytes(WriteToc(disc, toc),
                                      OFFSET_TO_DOL_OFFSET + 8, size \o size)
                /\ ed' = [NextPart(ed) EXCEPT
                             !.log = @ \o << Wrote("toc", disc.fstAt, Len(toc)),
                                             Wrote("header",
                                                   OFFSET_TO_DOL_OFFSET + 8,
                                                   8) >>]
                /\ UNCHANGED <<pc, stack, result>>

\* phase 4, step 4: copy the next boot blob to its reserved offset
operate_boot ==
    /\ Writing("boot")
    /\ UNCHANGED <<args, target, build, host, boot, iso, lay, entry_offset,
                   string_offset, stack, rd, result, ops, orig, pc>>
    /\ IF ed.i > Len(ed.boots)
       THEN ed' = NextPart(ed) /\ UNCHANGED disc
       ELSE LET o   == ed.boots[ed.i]
                off == BootOffset(o.iso_path[1], ed.dol_offset)
            IN  /\ disc' = WritePiece(disc, off, o.input_path.piece)
                /\ ed' = [ed EXCEPT
                             !.i = @ + 1,
                             !.log = Append(@, Wrote("boot", off,
                                                     InputSize(o.input_path)))]

\* operate_on_iso returns Ok(())
operate_return ==
    /\ pc = "e_write" /\ ed.step > Len(WriteOrder)
    /\ UNCHANGED <<cli, build, host, boot, disc, iso, lay, entry_offset,
                   string_offset, rd, ops, orig>>
    /\ Finish("Ok")

\* before `fs`: a disc
InitEdit ==
    /\ Start /\ build = "release"
    /\ disc \in EditDiscs
    /\ host = {} /\ boot = NoBoot

NextEdit ==
    \/ Fs \/ operate_plan \/ operate_payload \/ operate_toc \/ operate_boot
    \/ operate_return

SpecEdit == InitEdit /\ [][NextEdit]_vars

----------------------------------------------------------------------------
(* Claims about the in-place editor *)

\* the last command was `fs` and operate_on_iso has returned
Edited == pc = "shell" /\ ops # <<>> /\ ops[Len(ops)] = "fs"

\* where a kind of write stands in the order of phase 4
Rank(kind) ==
    CASE kind = "payload" -> 1
      [] kind \in { "toc", "header" } -> 2
      [] kind = "boot" -> 3

FilePaths(evs) ==
    { PathOf(evs, k) : k \in { x \in 1..Len(evs) : evs[x].t = "File" } }

\* the extent of the file at `path` in the events evs
ExtentAt(evs, path) ==
    Extent(evs[CHOOSE k \in 1..Len(evs) :
                   evs[k].t = "File" /\ PathOf(evs, k) = path])

\* the paths a batch inserts at, and the paths it deletes or replaces
InsertedPaths(batch) ==
    { batch[k].iso_path : k \in { x \in 1..Len(batch) : IsInsertOp(batch[x]) } }

TouchedPaths(batch) ==
    { batch[k].iso_path : k \in { x \in 1..Len(batch) : ~IsBootOp(batch[x]) } }

\* the paths of the files the batch retains
RetainedPaths(v, batch) == FilePaths(read_fst(v)) \ TouchedPaths(batch)

Disjoint(x, y) == x.end <= y.start \/ y.end <= x.start

\* the ISOs v and w hold the same bytes in the extent x; the runs are compared
\* where the extent is clear of both FST regions, the bytes where it is not
SameBytes(v, w, x) ==
    LET n    == Wide(x.end - x.start)
        f(u) == [start |-> u.fstAt, end |-> u.fstAt + Len(u.fst)]
    IN  IF Disjoint(x, f(v)) /\ Disjoint(x, f(w))
        THEN VecSlice(v, Wide(x.start), n) = VecSlice(w, Wide(x.start), n)
        ELSE BytesOf(VecSlice(v, Wide(x.start), n))
             = BytesOf(VecSlice(w, Wide(x.start), n))

\* C16: after operate(ops) every inserted file's extent lies inside
\* [0, ROM_SIZE) and in bytes that no retained file covered before the
\* operation, the inserted extents are pairwise disjoint, and every retained
\* file has the bytes it had.
C16_FreeSpace ==
    Edited /\ result = "Ok" =>
        LET old  == read_fst(ed.before)
            new  == read_fst(disc)
            kept == RetainedPaths(ed.before, args.ops)
            ins  == InsertedPaths(args.ops)
        IN  /\ \A p \in ins :
                  /\ p \in FilePaths(new)
                  /\ ExtentAt(new, p).start >= 0
                  /\ ExtentAt(new, p).end <= Narrow(ROM_SIZE)
                  /\ \A q \in kept :
                         Disjoint(ExtentAt(new, p), ExtentAt(old, q))
                  /\ \A q \in ins \ { p } :
                         Disjoint(ExtentAt(new, p), ExtentAt(new, q))
            /\ \A q \in kept : SameBytes(disc, ed.before, ExtentAt(old, q))

\* C16 witness: two files were inserted in one batch, one of them in place
\* of a file of the disc, and a file was retained
C16_Witness ==
    /\ Edited /\ result = "Ok"
    /\ Cardinality(InsertedPaths(args.ops)) = 2
    /\ InsertedPaths(args.ops) \cap FilePaths(read_fst(ed.before)) # {}
    /\ RetainedPaths(ed.before, args.ops) # {}
    /\ \A p \in InsertedPaths(args.ops) :
           ExtentAt(read_fst(disc), p).start > 0

\* the errors of phases 1 to 3
PlanErrors ==
    { "InvalidFSPath", "InvalidISOPath", "InvalidISO",
      "FileInsertionReplicatesFolder", "ISOTooLarge" }

\* C17: when operate_on_iso fails in phases 1 to 3, no byte of the ISO on
\* disk has been written: the ISO is as it was before the call.
C17_FailureAtomic ==
    Edited /\ result \in PlanErrors => disc = ed.before /\ ed.log = <<>>

\* C17 witness: a batch whose first insert fits and whose second is a file
\* of 1.4 GiB failed with ISOTooLarge and left the ISO as it was
C17_Witness ==
    /\ Edited /\ result = "ISOTooLarge"
    /\ Len(args.ops) = 2 /\ args.ops[1].input_path = SmallInput
    /\ args.ops[2].input_path = HugeInput
    /\ disc = ed.before /\ ~Malformed(disc)

\* the FST region of an ISO: fst_size bytes from the FST offset
FstRegion(v) ==
    [start |-> v.fstAt, end |-> v.fstAt + Narrow(HeaderWord(v, 2))]

FstRegionBytes(v) == SubSeq(v.fst, 1, Narrow(HeaderWord(v, 2)))

\* the batch is [Insert(p, f), Delete(p)] for one ordinary path p
InsertDeleteSame(batch) ==
    /\ Len(batch) = 2
    /\ IsInsertOp(batch[1]) /\ batch[1].input_path.exists
    /\ batch[2] = Delete(batch[1].iso_path)

EntryPaths(evs) ==
    { PathOf(evs, k) : k \in { x \in 1..Len(evs) : evs[x].t # "PopDir" } }

\* operate([Insert(p, f)]) and then operate([Delete(p)]) have run on a valid
\* ISO that did not have p
InsertedThenDeleted ==
    /\ Edited /\ Len(ops) = 2 /\ ~Malformed(orig.disc)
    /\ Len(ed.first) = 1 /\ IsInsertOp(ed.first[1])
    /\ ed.first[1].input_path.exists
    /\ ed.first[1].iso_path \notin EntryPaths(read_fst(orig.disc))
    /\ args.ops = << Delete(ed.first[1].iso_path) >>

\* C20: for a valid ISO and a path p that is not in it, operate([Insert(p,
\* f)]) followed by operate([Delete(p)]) returns the FST to a state equivalent
\* to the original: the same directories, those that were empty included, and
\* the same files in the same order with the same data_offset and size.
C20_InsertThenDelete ==
    InsertedThenDeleted => read_fst(disc) = read_fst(orig.disc)

----------------------------------------------------------------------------
(* Claims about the boot region and the FST that write_iso lays out *)

\* the smallest multiple of 8 that is >= n
Ceil8(n) == ((n + 7) \div 8) * 8

\* C21: the offset at which Start.dol begins is the smallest multiple of 8
\* that is >= len(ISO.hdr) + len(AppLoader.ldr), and fst_offset is the
\* smallest multiple of 8 that is >= that offset + len(Start.dol).
C21_BootPadding ==
    Walking \/ Built =>
        /\ lay.dol_offset
           = Ceil8(Narrow(CLen(boot.hdr)) + Narrow(CLen(boot.ldr)))
        /\ lay.fst_offset = Ceil8(lay.dol_offset + Narrow(CLen(boot.dol)))

\* the nodes of the host tree that get an FST entry: regular files and
\* directories, not below a symlink (nothing is) and not `&&systemdata` as a
\* directory or anything below it
Visited(fs) ==
    { n \in fs :
        /\ n.path # <<>> /\ n.kind \in { "file", "dir" }
        /\ \A k \in 1..Len(n.path) :
               IsDir(fs, SubSeq(n.path, 1, k)) => n.path[k] # SYSTEMDATA }

RECURSIVE NameBytes(_)
\* the bytes the names of a set of nodes take in the string pool
NameBytes(nodes) ==
    IF nodes = {} THEN 0
    ELSE LET n == CHOOSE x \in nodes : TRUE
         IN  Len(file_name(n)) + 1 + NameBytes(nodes \ { n })

\* the loop of write_dir over the root has ended
WalkDone == Walking /\ Len(stack) = 1 /\ Top.i > Len(Top.list)

\* C22: the region write_iso reserves for the FST is 12 * (entry_count + 1)
\* + total_string_bytes long, for the entries write_dir visits (symlinks and
\* `&&systemdata` passed over by both); no entry or name is written outside
\* it, and after write_dir the entry cursor is at the start of the string
\* pool and the string cursor at its end.
C22_FstFilled ==
    /\ Walking \/ Built =>
           /\ lay.entry_count = Cardinality(Visited(host))
           /\ lay.string_end - lay.string_start = NameBytes(Visited(host))
           /\ iso.fstAt = lay.fst_offset
           /\ Len(iso.fst) = 12 * (lay.entry_count + 1)
                             + NameBytes(Visited(host))
           /\ ~iso.overrun
           /\ entry_offset <= lay.string_start
           /\ string_offset <= lay.string_end
    /\ WalkDone \/ Built =>
           /\ entry_offset = lay.string_start
           /\ string_offset = lay.string_end

\* C22 witness: an ISO was built from a root that holds a file, a directory,
\* a symlink and &&systemdata; two entries were counted and written
C22_Witness ==
    /\ Built /\ SysNode \in host
    /\ \E n \in host : n.kind = "symlink"
    /\ \E n \in host : n.kind = "file" /\ n.path # <<>>
    /\ \E n \in host : n.kind = "dir" /\ Len(n.path) = 1 /\ n # SysNode
    /\ lay.entry_count = 2
    /\ entry_offset = lay.string_start /\ string_offset = lay.string_end

RECURSIVE DirPath(_, _)
\* the path of directory entry k (0: the root), by the parent indices
DirPath(v, k) ==
    IF k = 0 \/ DirParent(v, k) >= k THEN <<>>
    ELSE Append(DirPath(v, DirParent(v, k)), EntryName(v, k))

\* the nodes with an FST entry anywhere below the directory `path`
Subtree(fs, path) ==
    { n \in Visited(fs) :
        Len(n.path) > Len(path) /\ SubSeq(n.path, 1, Len(path)) = path }

\* C23: for every directory entry written by write_dir at index i whose
\* subtree holds n entries in total (all descendants), the back-patched
\* next_index is i + n + 1; an empty directory gets i + 1.
C23_NextIndex ==
    Built =>
        \A i \in Entries(disc) :
            EntryIsDir(disc, i) =>
                DirNext(disc, i)
                = i + Cardinality(Subtree(host, DirPath(disc, i))) + 1

\* C23 witness: an ISO was built with a directory (entry 1) that holds a
\* directory (entry 2) that holds a file (entry 3): both get next_index 4
C23_Witness ==
    /\ Built /\ TotalEntries(disc) = 4
    /\ EntryIsDir(disc, 1) /\ EntryIsDir(disc, 2) /\ ~EntryIsDir(disc, 3)
    /\ DirParent(disc, 2) = 1
    /\ Cardinality(Subtree(host, DirPath(disc, 1))) = 2
    /\ DirNext(disc, 1) = 4 /\ DirNext(disc, 2) = 4

\* C24: the first 12 bytes at fst_offset of the ISO write_iso returns are the
\* root entry: flag byte 0x01, name offset 0, parent 0, and next_index the
\* number of FST entries with the root, one more than the file and directory
\* entries write_dir emitted.
C24_RootEntry ==
    Built =>
        /\ disc.fstAt = lay.fst_offset
        /\ SubSeq(disc.fst, 1, 8) = << 1, 0, 0, 0, 0, 0, 0, 0 >>
        /\ FstWord(disc, 0, 2) = Wide(1 + Cardinality(Written))
        /\ Cardinality(Written) = Cardinality(Visited(host))

\* C24 witness: an ISO was built after write_dir emitted a directory and,
\* inside it, a file and a directory: the root entry counts four
C24_Witness ==
    /\ Built /\ Cardinality(Written) = 3
    /\ FstWord(disc, 0, 2) = Wide(4)
    /\ EntryIsDir(disc, 1) /\ DirNext(disc, 1) = 4
    /\ \E k \in 2..3 : ~EntryIsDir(disc, k)
    /\ \E k \in 2..3 : EntryIsDir(disc, k)

----------------------------------------------------------------------------
(* Claims about the string pool and the entry words of write_iso *)

\* the 24-bit name offset stored in bytes 1..4 of entry k
NameOff(v, k) ==
    LET w == FstWord(v, k, 0)
    IN  (w.hi % 256) * HALF + w.lo

\* the length of the string pool: what follows the entries
PoolLen(v) == Len(v.fst) - 12 * TotalEntries(v)

\* the (1-based) place in v.fst of the byte after the name of entry k
NameEnd(v, k) ==
    12 * TotalEntries(v) + NameOff(v, k) + Len(EntryName(v, k)) + 1

\* C25: names lie in the string pool in the order their entries are emitted,
\* each followed by one 0x00: the name offset of the k-th entry is the sum of
\* (length + 1) over the names of the earlier entries, and the NUL-terminated
\* string at string pool + name offset is that entry's name.
C25_StringPool ==
    Built =>
        /\ \A k \in Entries(disc) :
               /\ NameOff(disc, k)
                  = (IF k = 1 THEN 0
                     ELSE NameOff(disc, k - 1)
                          + Len(EntryName(disc, k - 1)) + 1)
               /\ EntryName(disc, k) # <<>>
               /\ NameEnd(disc, k) <= Len(disc.fst)
               /\ disc.fst[NameEnd(disc, k)] = 0
        /\ PoolLen(disc)
           = (IF TotalEntries(disc) = 1 THEN 0
              ELSE NameOff(disc, TotalEntries(disc) - 1)
                   + Len(EntryName(disc, TotalEntries(disc) - 1)) + 1)
        /\ { << n.path, n.kind >> : n \in TreeOf(disc) }
           = { << n.path, n.kind >> : n \in Visited(host) }

\* C25 witness: an ISO was built with three entries, one of them with a name
\* of 12 bytes that is not the last: the next name starts 13 bytes on
C25_Witness ==
    /\ Built /\ TotalEntries(disc) = 4
    /\ \E k \in 1..2 :
           /\ Len(EntryName(disc, k)) = 12
           /\ NameOff(disc, k + 1) = NameOff(disc, k) + 13
    /\ PoolLen(disc) = 17

\* entries write_dir has written before the one it is about to write, and
\* the length of the name of each of them
EarlierCounts ==
    { 0, 1, 2, 3, 255, 256, 4096, 65535, 65536, 65537, 100000, 131072 }

EarlierNameLens == { 1, 12, 255 }

\* the entry write_dir is about to write: a file or a directory of the root
NextEntries ==
    { Node(<< NameA >>, "file", Whole(Src("file", << NameA >>, <<>>), Wide(5))),
      Node(<< NameB >>, "dir", <<>>) }

\* the offsets of write_iso for `e` entries with names of n bytes followed by
\* the entry `node`, with the FST at 0x2700
WalkLay(e, n, node) ==
    [dol_offset |-> 9472, fst_offset |-> 9984, entry_count |-> e + 1,
     entry_start |-> 9996, string_start |-> 9996 + 12 * (e + 1),
     string_end |-> 9996 + 12 * (e + 1) + e * (n + 1)
                    + Len(file_name(node)) + 1]

\* the buffer of write_iso in the loop of write_dir over the root, with `e`
\* entries written: of the FST, the 12 bytes of the entry to write are kept
\* byte by byte (the entries before it and the string pool are not kept), and
\* the payloads of the entries before it are empty
WalkVec(b, e, n, node) ==
    [len |-> align(Wide(WalkLay(e, n, node).string_end),
                   FILE_CONTENTS_ALIGNMENT),
     segs |-> << Seg(WZero, b.hdr[1]), Seg(Wide(HDR_SIZE), b.ldr[1]),
                 Seg(Wide(9472), b.dol[1]) >>,
     fstAt |-> 9996 + 12 * e, fst |-> [i \in 1..12 |-> 0],
     overrun |-> FALSE, panic |-> FALSE]

\* write_dir, lines 120-146: the loop over the root reaches its last entry
\* after `e` entries with names of n bytes
InitWord ==
    /\ build \in { "debug", "release" }
    /\ boot = [ok |-> TRUE, hdr |-> HdrFile(9472, 9984, 12, 12),
               ldr |-> LdrFile(64, 32), dol |-> DolFile(288)]
    /\ disc = NoDisc /\ rd = NoRd /\ result = "none"
    /\ pc = "w_walk" /\ ops = << "rebuild" >>
    /\ args = NoArgs /\ target = NoTarget /\ ed = NoEd
    /\ \E e \in EarlierCounts, n \in EarlierNameLens, node \in NextEntries :
           /\ host = { RootNode, SysNode, node }
           /\ orig = [cmd |-> "rebuild", host |-> host, boot |-> boot,
                      disc |-> disc]
           /\ lay = WalkLay(e, n, node)
           /\ iso = WalkVec(boot, e, n, node)
           /\ entry_offset = 9996 + 12 * e
           /\ string_offset = lay.string_start + e * (n + 1)
           /\ stack = << [Frame(<<>>, << SysNode, node >>, 0, 0)
                             EXCEPT !.i = 2] >>

NextWord ==
    write_dir_file \/ write_dir_dir \/ write_dir_return \/ write_iso_end

\* write_dir from the last entry of a large root on
SpecWord == InitWord /\ [][NextWord]_vars

\* the entry InitWord left to write has been written and the ISO returned
WordWritten == Built /\ Len(disc.fst) = 12 /\ lay.entry_count > 0

\* the entry that was written last, and the offset of its name in the pool
LastEntry == CHOOSE n \in host : n \notin { RootNode, SysNode }

LastNameOffset ==
    lay.string_end - lay.string_start - Len(file_name(LastEntry)) - 1

\* C26: in every FST that write_iso returns, a file entry has byte 0 = 0x00,
\* a directory entry has byte 0 = 0x01, and bytes 1..4 of the entry are its
\* offset in the string pool: no name offset reaches 2^24, no file entry
\* reads back as a directory, no directory's offset is cut by the flag.
C26_EntryWord ==
    WordWritten =>
        /\ disc.fst[1] = (IF LastEntry.kind = "file" THEN 0 ELSE 1)
        /\ (disc.fst[2] * 256 + disc.fst[3]) * 256 + disc.fst[4]
           = LastNameOffset
        /\ LastNameOffset < 2^24

----------------------------------------------------------------------------
(* Claims about the payloads of write_iso *)

\* w rounded up to a 32 KiB boundary
Ceil32K(w) ==
    LET s == WAdd(w, Wide(32767))
    IN  W(s.hi, s.lo - (s.lo % 32768))

\* the file entry before file entry k (0: k is the first)
FileBefore(v, k) ==
    LET before == { j \in FileEntries(v) : j < k }
    IN  IF before = {} THEN 0
        ELSE CHOOSE j \in before : \A x \in before : x <= j

\* C27: write_iso places the payloads in FST order: the first file's
\* data_offset is fst_offset + fst_size rounded up to 32 KiB, each later
\* file's is the end of the payload before it rounded up to 32 KiB, so the
\* offsets do not decrease, and the size field of each entry is the number of
\* payload bytes stored at its data_offset.
C27_SequentialLayout ==
    Built =>
        /\ \A k \in FileEntries(disc) :
               LET j == FileBefore(disc, k)
               IN  /\ ExtentStart(disc, k)
                      = (IF j = 0
                         THEN Ceil32K(Wide(lay.fst_offset + FstSize))
                         ELSE Ceil32K(ExtentEnd(disc, j)))
                   /\ j # 0 => WLe(ExtentStart(disc, j), ExtentStart(disc, k))
        /\ \A n \in TreeOf(disc) : n.kind = "file" => n \in host

----------------------------------------------------------------------------
(* Claims about the walk of read_iso *)

\* an FST whose directories close after they open and inside the directory
\* that holds them
WellFormed(v) ==
    /\ FstSelfConsistent(v)
    /\ \A i \in Entries(v) : \A j \in Entries(v) :
           EntryIsDir(v, i) /\ EntryIsDir(v, j) /\ i < j /\ j < DirNext(v, i)
               => DirNext(v, j) <= DirNext(v, i)

RECURSIVE OpenDirs(_, _, _)
\* the directory entries d .. i - 1 that entry i lies in, outermost first
OpenDirs(v, d, i) ==
    IF d >= i THEN <<>>
    ELSE (IF EntryIsDir(v, d) /\ DirNext(v, d) > i THEN << d >> ELSE <<>>)
         \o OpenDirs(v, d + 1, i)

\* the host path (below ./root) of entry i: the names of the directories it
\* lies in, then its own
HostPath(v, i) ==
    LET open == OpenDirs(v, 1, i)
    IN  [x \in 1..Len(open) |-> EntryName(v, open[x])]
        \o << EntryName(v, i) >>

\* what read_iso leaves on the host for entry i
HostNode(v, i) ==
    IF EntryIsDir(v, i) THEN Node(HostPath(v, i), "dir", <<>>)
    ELSE Node(HostPath(v, i), "file",
              VecSlice(v, FstWord(v, i, 1), FstWord(v, i, 2)))

\* C28: for a well-formed FST, when read_iso processes entry i (1 <= i <
\* entry_count) the stack of pending end indices holds the next_index of
\* every directory d with d < i < next_index(d), outermost first, and the
\* path is ./root joined with the names of those directories; every file is
\* written at that path plus its name with the bytes buffer[data_offset ..
\* data_offset + size], and every directory is created there.
C28_PathStack ==
    Extracting /\ pc = "r_walk" /\ WellFormed(iso) =>
        LET i    == rd.entry_index
            r0   == PopEnded(rd)
            open == OpenDirs(iso, 1, i)
        IN  /\ i < TotalEntries(iso) =>
                  /\ r0.dir_end_indices
                     = [x \in 1..Len(open) |-> FstWord(iso, open[x], 2)]
                  /\ r0.path
                     = [x \in 1..Len(open) |-> EntryName(iso, open[x])]
            /\ \A j \in 1..(i - 1) : HostNode(iso, j) \in host

\* C28 witness: read_iso has walked an FST of two nested directories that
\* both end at entry 3 and a file after them, and is past the file: it left
\* both directories before it wrote the file below ./root
C28_Witness ==
    /\ Extracting /\ pc = "r_walk" /\ WellFormed(iso)
    /\ TotalEntries(iso) = 4 /\ rd.entry_index = 4
    /\ EntryIsDir(iso, 1) /\ DirNext(iso, 1) = 3
    /\ EntryIsDir(iso, 2) /\ DirNext(iso, 2) = 3
    /\ ~EntryIsDir(iso, 3)
    /\ rd.path = <<>> /\ rd.dir_end_indices = <<>>
    /\ IsDir(host, << NameB, NameB >>)
    /\ HostNode(iso, 3) \in host /\ HostPath(iso, 3) = << NameA >>

----------------------------------------------------------------------------
(* Claims about rebuild followed by extract *)

\* `rebuild` wrote an ISO and `extract` of that ISO has ended
RebuiltThenExtracted == pc = "shell" /\ ops = << "rebuild", "extract" >>

\* C29: read_iso on the buffer write_iso returned for a tree T locates the
\* FST that write_iso wrote (the word at 0x424 is the offset of the root
\* entry) and reproduces T: the same directories, file names and contents.
C29_ExtractAfterRebuild ==
    RebuiltThenExtracted =>
        /\ result = "Ok"
        /\ rd.fst_offset = Wide(lay.fst_offset)
        /\ HeaderWord(disc, 1) = Wide(lay.fst_offset)
        /\ host = orig.host

----------------------------------------------------------------------------
(* Claims about the title of set-header *)

\* C30: when set-header rejects the invocation because the title is longer
\* than 0x1F bytes the file has not been modified, the game ID at offset 0
\* included; on success only the bytes [0, 6) and, with a title, [0x20, 0x40)
\* change.
C30_TitleAtomic ==
    ops = << "set-header" >> /\ pc = "shell" =>
        /\ result = "TitleTooLong" => target = orig.target
        /\ result = "Ok" =>
               \A i \in 1..Len(orig.target.bytes) :
                   i > 6 /\ (~args.has_title \/ i <= 32 \/ i > 64)
                       => target.bytes[i] = orig.target.bytes[i]

====
